---- MODULE Spec2Model ----
(***************************************************************************)
(* The API-call scoring harness (backend/evaluation/harness/evaluator.py)  *)
(* and the synthetic sample generator (backend/training/data_generation/   *)
(* synthetic_generator.py) of tiny-llm-trainer.                            *)
(*                                                                         *)
(* Representation.                                                         *)
(*   A Python str is a sequence of pieces (TLA+ strings): the url          *)
(*   "https://api.example.com/pets/123" is                                 *)
(*   <<"https://api.example.com", "/", "pets", "/", "123">>.               *)
(*   A text (a model output, a serialized call) is a sequence of tokens    *)
(*   <<kind, payload>>: whitespace, a prose word, a brace or bracket, an   *)
(*   object key, a string literal, a number literal, true/false/null.      *)
(*   The ':' after a key and the ',' between members are part of the       *)
(*   neighbouring tokens.                                                  *)
(*   A Python value is a tagged pair: <<"obj", seq of <<key, value>>>> (a  *)
(*   dict, ordered), <<"arr", seq>>, <<"str", pieces>>, <<"int", n>>,      *)
(*   <<"float", hundredths>>, <<"bool", b>>, <<"null", 0>>.                *)
(*   A float metric is an exact fraction <<num, den>> in lowest terms.     *)
(***************************************************************************)
EXTENDS Integers, Sequences, FiniteSets, TLC

VARIABLES
    spec,             \* self.spec: the contract the objects were built from
    base_url,         \* self.base_url
    valid_endpoints,  \* APICallEvaluator.valid_endpoints: path -> methods
    endpoints,        \* SyntheticDataGenerator.endpoints
    op,               \* the operation last called
    args,             \* its arguments
    ret,              \* what it returned, or the exception it raised
    db,               \* the rows of the job records in the database
    requests,         \* the request handlers started, each with its position
    tasks             \* the background tasks dispatched, each with its position

\* the job records and the processes that work on them
jobs == <<db, requests, tasks>>

vars == <<spec, base_url, valid_endpoints, endpoints, op, args, ret, jobs>>

\* no job record: the evaluator and the generator use no database
NoJobs == db = <<>> /\ requests = <<>> /\ tasks = <<>>

\* F applied to the value of v, which is computed once
Let(v, F(_)) == CHOOSE r \in {F(w) : w \in {v}} : TRUE

----------------------------------------------------------------------------
(* Fractions *)

RECURSIVE Gcd(_, _)
Gcd(a, b) == IF b = 0 THEN a ELSE Gcd(b, a % b)

Frac(n, d) == LET g == Gcd(n, d) IN IF n = 0 THEN <<0, 1>> ELSE <<n \div g, d \div g>>
Zero == <<0, 1>>
One == <<1, 1>>
FAdd(x, y) == Frac(x[1] * y[2] + y[1] * x[2], x[2] * y[2])
FMul(x, y) == Frac(x[1] * y[1], x[2] * y[2])
FDivInt(x, n) == Frac(x[1], x[2] * n)
FGeq(x, y) == x[1] * y[2] >= y[1] * x[2]
FLeq(x, y) == FGeq(y, x)
FBool(b) == IF b THEN One ELSE Zero
FMin(x, y) == IF FLeq(x, y) THEN x ELSE y

----------------------------------------------------------------------------
(* Python str and list operations on sequences *)

RECURSIVE LStrip(_, _)
LStrip(s, drop) ==
    IF s # <<>> /\ Head(s) \in drop THEN LStrip(Tail(s), drop) ELSE s

RECURSIVE RStrip(_, _)
RStrip(s, drop) ==
    IF s # <<>> /\ s[Len(s)] \in drop
    THEN RStrip(SubSeq(s, 1, Len(s) - 1), drop)
    ELSE s

\* s.strip(chars)
StripOf(s, drop) == RStrip(LStrip(s, drop), drop)

\* s.split(sep): the pieces between the separators, at least one
RECURSIVE SplitOn(_, _)
SplitOn(s, sep) ==
    IF \A i \in 1..Len(s) : s[i] # sep
    THEN <<s>>
    ELSE LET i == CHOOSE k \in 1..Len(s) :
                      s[k] = sep /\ \A j \in 1..(k - 1) : s[j] # sep
         IN  <<SubSeq(s, 1, i - 1)>> \o SplitOn(SubSeq(s, i + 1, Len(s)), sep)

Range(s) == {s[i] : i \in 1..Len(s)}

RECURSIVE SumSeq(_)
SumSeq(s) == IF s = <<>> THEN Zero ELSE FAdd(Head(s), SumSeq(Tail(s)))

\* str.upper() / str.lower() on the method pieces the model uses
UpperPiece(p) ==
    CASE p = "get" -> "GET" [] p = "post" -> "POST" [] p = "put" -> "PUT"
      [] p = "delete" -> "DELETE" [] p = "patch" -> "PATCH"
      [] p = "head" -> "HEAD" [] p = "options" -> "OPTIONS"
      [] p = "parameters" -> "PARAMETERS"
      [] p = "Get" -> "GET" [] p = "Post" -> "POST"
      [] OTHER -> p
LowerPiece(p) ==
    CASE p = "GET" -> "get" [] p = "POST" -> "post" [] p = "PUT" -> "put"
      [] p = "DELETE" -> "delete" [] p = "PATCH" -> "patch"
      [] p = "HEAD" -> "head" [] p = "OPTIONS" -> "options"
      [] p = "PARAMETERS" -> "parameters"
      [] p = "Get" -> "get" [] p = "Post" -> "post"
      [] p = "Pets" -> "pets"
      [] OTHER -> p
Upper(s) == [i \in 1..Len(s) |-> UpperPiece(s[i])]
Lower(s) == [i \in 1..Len(s) |-> LowerPiece(s[i])]

----------------------------------------------------------------------------
(* Python values *)

PObj(members) == <<"obj", members>>
PArr(items) == <<"arr", items>>
PStr(s) == <<"str", s>>
PInt(n) == <<"int", n>>
PFloat(h) == <<"float", h>>
PBool(b) == <<"bool", b>>
PNull == <<"null", 0>>
EmptyDict == PObj(<<>>)

IsDict(v) == v[1] = "obj"
IsStr(v) == v[1] = "str"

\* bool(v): None, False, zero, '', [] and {} are falsy
Truthy(v) ==
    CASE v[1] = "null" -> FALSE
      [] v[1] = "bool" -> v[2]
      [] v[1] \in {"int", "float"} -> v[2] # 0
      [] OTHER -> v[2] # <<>>

Keys(d) == {d[2][i][1] : i \in 1..Len(d[2])}
HasKey(d, k) == k \in Keys(d)
\* d[k]
Item(d, k) == d[2][CHOOSE i \in 1..Len(d[2]) : d[2][i][1] = k][2]
\* d.get(k, default)
Get(d, k, default) == IF HasKey(d, k) THEN Item(d, k) ELSE default
\* d[k] = v: a new key goes last, an old key keeps its place
Put(d, k, v) ==
    IF HasKey(d, k)
    THEN PObj([i \in 1..Len(d[2]) |->
                  IF d[2][i][1] = k THEN <<k, v>> ELSE d[2][i]])
    ELSE PObj(Append(d[2], <<k, v>>))

IsNumber(v) == v[1] \in {"int", "float", "bool"}
\* the numeric value in hundredths: True is 1, 1 is 1.0
NumberOf(v) ==
    CASE v[1] = "int" -> 100 * v[2]
      [] v[1] = "float" -> v[2]
      [] v[1] = "bool" -> IF v[2] THEN 100 ELSE 0

\* a == b
RECURSIVE PyEq(_, _)
PyEq(a, b) ==
    IF IsNumber(a) /\ IsNumber(b) THEN NumberOf(a) = NumberOf(b)
    ELSE IF a[1] # b[1] THEN FALSE
    ELSE IF a[1] = "obj"
         THEN /\ Keys(a) = Keys(b)
              /\ \A k \in Keys(a) : PyEq(Item(a, k), Item(b, k))
    ELSE IF a[1] = "arr"
         THEN /\ Len(a[2]) = Len(b[2])
              /\ \A i \in 1..Len(a[2]) : PyEq(a[2][i], b[2][i])
    ELSE a[2] = b[2]

----------------------------------------------------------------------------
(* Texts and json *)

Ws == <<"ws", <<>>>>
Word(w) == <<"word", <<w>>>>
LBrace == <<"{", <<>>>>
RBrace == <<"}", <<>>>>
LBracket == <<"[", <<>>>>
RBracket == <<"]", <<>>>>
KeyTok(k) == <<"key", <<k>>>>
StrTok(s) == <<"str", s>>
NumTok(lit) == <<"num", <<lit>>>>
LitTok(lit) == <<"lit", <<lit>>>>

\* text.strip()
Strip(text) == StripOf(text, {Ws})

\* the value of a number literal
NumValue(lit) ==
    CASE lit = "0" -> PInt(0) [] lit = "1" -> PInt(1) [] lit = "2" -> PInt(2)
      [] lit = "3" -> PInt(3) [] lit = "5" -> PInt(5) [] lit = "10" -> PInt(10)
      [] lit = "20" -> PInt(20) [] lit = "50" -> PInt(50)
      [] lit = "100" -> PInt(100) [] lit = "1000" -> PInt(1000)
      [] lit = "1.0" -> PFloat(100) [] lit = "42.5" -> PFloat(4250)
      [] lit = "100.0" -> PFloat(10000) [] lit = "1e2" -> PFloat(10000)

\* the characters of a string literal or key, escapes decoded
UnescapePiece(p) ==
    CASE p = "nick\\\"name\\\"" -> "nick\"name\""
      [] p = "\\/" -> "/"
      [] OTHER -> p
Unescape(s) == [i \in 1..Len(s) |-> UnescapePiece(s[i])]
LitValue(lit) ==
    CASE lit = "true" -> PBool(TRUE) [] lit = "false" -> PBool(FALSE)
      [] lit = "null" -> PNull

JsonFail == [ok |-> FALSE, v |-> PNull, n |-> 0]
JsonOk(v, n) == [ok |-> TRUE, v |-> v, n |-> n]

RECURSIVE SkipWs(_, _)
SkipWs(t, i) == IF i <= Len(t) /\ t[i] = Ws THEN SkipWs(t, i + 1) ELSE i

RECURSIVE JsonValue(_, _)
RECURSIVE JsonMembers(_, _, _)
RECURSIVE JsonItems(_, _, _)

\* one JSON value starting at token i: the value and the index after it
JsonValue(t, i) ==
    Let(SkipWs(t, i), LAMBDA j :
    IF j > Len(t) THEN JsonFail
    ELSE CASE t[j][1] = "str" -> JsonOk(PStr(Unescape(t[j][2])), j + 1)
           [] t[j][1] = "num" -> JsonOk(NumValue(t[j][2][1]), j + 1)
           [] t[j][1] = "lit" -> JsonOk(LitValue(t[j][2][1]), j + 1)
           [] t[j][1] = "{" -> JsonMembers(t, j + 1, EmptyDict)
           [] t[j][1] = "[" -> JsonItems(t, j + 1, <<>>)
           [] OTHER -> JsonFail)

JsonMembers(t, i, acc) ==
    Let(SkipWs(t, i), LAMBDA j :
    IF j > Len(t) THEN JsonFail
    ELSE IF t[j] = RBrace THEN JsonOk(acc, j + 1)
    ELSE IF t[j][1] = "key"
         THEN Let(JsonValue(t, j + 1), LAMBDA r :
              IF r.ok
              THEN JsonMembers(t, r.n, Put(acc, UnescapePiece(t[j][2][1]), r.v))
              ELSE JsonFail)
    ELSE JsonFail)

JsonItems(t, i, acc) ==
    Let(SkipWs(t, i), LAMBDA j :
    IF j > Len(t) THEN JsonFail
    ELSE IF t[j] = RBracket THEN JsonOk(PArr(acc), j + 1)
    ELSE Let(JsonValue(t, j), LAMBDA r :
         IF r.ok THEN JsonItems(t, r.n, Append(acc, r.v)) ELSE JsonFail))

\* json.loads(text): [ok, v]; ok = FALSE is json.JSONDecodeError
json_loads(text) ==
    Let(JsonValue(text, 1), LAMBDA r :
    IF r.ok /\ SkipWs(text, r.n) > Len(text)
    THEN [ok |-> TRUE, v |-> r.v]
    ELSE [ok |-> FALSE, v |-> PNull])

----------------------------------------------------------------------------
(* APICallEvaluator: the call parser *)

\* the pieces of a str that begin with '{', and those that end with '}'
BracePieces == {"{id}", "{petId}", "{a}", "{b}"}
OpenPieces == BracePieces \cup {"{x"}
ClosePieces == BracePieces \cup {"x}"}

\* the characters '{' and '}' of a token, for the regular expression
HasOpen(tok) == tok = LBrace \/ (tok[1] = "str" /\ Range(tok[2]) \cap OpenPieces # {})
HasClose(tok) == tok = RBrace \/ (tok[1] = "str" /\ Range(tok[2]) \cap ClosePieces # {})

\* re.search(r'\{.*\}', text, re.DOTALL): from the first '{' to the last '}'
BraceSpan(text) ==
    LET opens == {i \in 1..Len(text) : HasOpen(text[i])}
        closes == {i \in 1..Len(text) : HasClose(text[i])}
    IN  IF opens = {} \/ closes = {} THEN [found |-> FALSE, lo |-> 0, hi |-> 0]
        ELSE LET lo == CHOOSE i \in opens : \A k \in opens : i <= k
                 hi == CHOOSE i \in closes : \A k \in closes : k <= i
             IN  [found |-> lo <= hi, lo |-> lo, hi |-> hi]

ParseOk(v) == [ok |-> TRUE, v |-> v, exc |-> ""]
ParseError(exc) == [ok |-> FALSE, v |-> PNull, exc |-> exc]

\* _parse_api_call: the value, or the exception raised
parse_api_call(api_call_str) ==
    Let(json_loads(Strip(api_call_str)), LAMBDA first :
    IF first.ok THEN ParseOk(first.v)
    ELSE Let(BraceSpan(api_call_str), LAMBDA m :
         IF m.found
         THEN \* a span that starts or ends inside a string literal is no JSON
              IF api_call_str[m.lo] = LBrace /\ api_call_str[m.hi] = RBrace
              THEN Let(json_loads(SubSeq(api_call_str, m.lo, m.hi)), LAMBDA second :
                   IF second.ok THEN ParseOk(second.v)
                   ELSE ParseError("JSONDecodeError"))
              ELSE ParseError("JSONDecodeError")
         ELSE ParseError("ValueError")))

----------------------------------------------------------------------------
(* APICallEvaluator: paths *)

Origins == {"https://api.example.com", "https://petstore.example.com"}

\* urlparse(url).path of a str: what follows scheme://netloc, up to '?'
UrlPath(s) ==
    LET rest == IF s # <<>> /\ Head(s) \in Origins THEN Tail(s) ELSE s
        cut == {i \in 1..Len(rest) : rest[i] = "?"}
    IN  IF cut = {} THEN rest
        ELSE SubSeq(rest, 1, (CHOOSE i \in cut : \A k \in cut : i <= k) - 1)

\* _extract_path_from_url: urlparse raises on a value that is no str, and
\* the bare except hands the value back
extract_path_from_url(url) ==
    IF ~Truthy(url) THEN PStr(<<>>)
    ELSE IF IsStr(url) THEN PStr(UrlPath(url[2]))
    ELSE url

\* a test for placeholders that no part passes
IsPlaceholder_never(part) == FALSE

\* part.startswith('{') and part.endswith('}')
IsPlaceholder(part) ==
    /\ part # <<>>
    /\ Head(part) \in OpenPieces
    /\ part[Len(part)] \in ClosePieces

\* path.strip('/').split('/')
Segments(path) == SplitOn(StripOf(path, {"/"}), "/")

Returned(v) == [raised |-> FALSE, v |-> v]
Raised(exc) == [raised |-> TRUE, exc |-> exc]

\* the number of positions where the expected part is a placeholder or
\* equals the predicted part
MatchedSegments(e, p) ==
    Cardinality({i \in 1..Len(e) : IsPlaceholder(e[i]) \/ e[i] = p[i]})

\* _calculate_path_similarity giving credit for the matched parts of paths
\* of different length
PathSimilarityStr_partial_credit(expected, predicted) ==
    IF expected = predicted THEN One
    ELSE LET e == Segments(expected)
             p == Segments(predicted)
             n == IF Len(e) < Len(p) THEN Len(e) ELSE Len(p)
             m == IF Len(e) < Len(p) THEN Len(p) ELSE Len(e)
         IN  Frac(MatchedSegments(SubSeq(e, 1, n), SubSeq(p, 1, n)), m)

\* _calculate_path_similarity on two str
PathSimilarityStr(expected, predicted) ==
    IF expected = predicted THEN One
    ELSE LET e == Segments(expected)
             p == Segments(predicted)
         IN  IF Len(e) # Len(p) THEN Zero
             ELSE IF e # <<>> THEN Frac(MatchedSegments(e, p), Len(e)) ELSE Zero

\* _calculate_path_similarity on two values: .strip raises on a non-str
calculate_path_similarity(expected, predicted) ==
    IF PyEq(expected, predicted) THEN Returned(One)
    ELSE IF ~IsStr(expected) \/ ~IsStr(predicted) THEN Raised("AttributeError")
    ELSE Returned(PathSimilarityStr(expected[2], predicted[2]))

\* _path_matches_spec
path_matches_spec(actual_path, spec_path) ==
    LET actual_parts == Segments(actual_path)
        spec_parts == Segments(spec_path)
    IN  IF Len(actual_parts) # Len(spec_parts) THEN FALSE
        ELSE \A i \in 1..Len(spec_parts) :
                 IsPlaceholder(spec_parts[i]) \/ actual_parts[i] = spec_parts[i]

----------------------------------------------------------------------------
(* APICallEvaluator: dict similarity *)

DictSimilarityDict(expected, predicted) ==
    LET expected_keys == Keys(expected)
        predicted_keys == Keys(predicted)
        key_intersection == expected_keys \cap predicted_keys
        key_union == expected_keys \cup predicted_keys
        key_similarity ==
            IF key_union # {}
            THEN Frac(Cardinality(key_intersection), Cardinality(key_union))
            ELSE One
        value_matches ==
            Cardinality({k \in key_intersection :
                             PyEq(Item(expected, k), Item(predicted, k))})
        value_similarity ==
            IF key_intersection # {}
            THEN Frac(value_matches, Cardinality(key_intersection))
            ELSE Zero
    IN  FDivInt(FAdd(key_similarity, value_similarity), 2)

\* _calculate_dict_similarity without the two tests for empty arguments
calculate_dict_similarity_unguarded(expected, predicted) ==
    IF ~IsDict(expected) \/ ~IsDict(predicted) THEN Raised("AttributeError")
    ELSE Returned(DictSimilarityDict(expected, predicted))

\* _calculate_dict_similarity: .keys() raises on a truthy value that is no dict
calculate_dict_similarity(expected, predicted) ==
    IF ~Truthy(expected) /\ ~Truthy(predicted) THEN Returned(One)
    ELSE IF ~Truthy(expected) \/ ~Truthy(predicted) THEN Returned(Zero)
    ELSE IF ~IsDict(expected) \/ ~IsDict(predicted) THEN Raised("AttributeError")
    ELSE Returned(DictSimilarityDict(expected, predicted))

----------------------------------------------------------------------------
(* APICallEvaluator: the contract index and conformance *)

IndexedMethods == {"get", "post", "put", "delete", "patch"}

\* an inner loop that keeps every key of the path item
KeptMethods_every_key(item) == [i \in 1..Len(item) |-> <<UpperPiece(item[i][1])>>]

\* the inner loop of _extract_valid_endpoints: the kept keys of one path
\* item, upper-cased, in the order of the keys
RECURSIVE KeptMethods(_)
KeptMethods(item) ==
    IF item = <<>> THEN <<>>
    ELSE (IF LowerPiece(Head(item)[1]) \in IndexedMethods
          THEN << <<UpperPiece(Head(item)[1])>> >>
          ELSE <<>>) \o KeptMethods(Tail(item))

\* the outer loop: a path enters the defaultdict at its first kept method
RECURSIVE IndexPaths(_)
IndexPaths(paths) ==
    IF paths = <<>> THEN <<>>
    ELSE (IF KeptMethods(Head(paths)[2]) # <<>>
          THEN << <<Head(paths)[1], KeptMethods(Head(paths)[2])>> >>
          ELSE <<>>) \o IndexPaths(Tail(paths))

\* _extract_valid_endpoints: the pairs <<path, methods>> of the dict
extract_valid_endpoints(contract) == IndexPaths(contract.paths)

DefaultBaseUrl == <<"https://api.example.com">>

\* _extract_base_url (the same code in both classes)
extract_base_url(contract) ==
    IF contract.servers # <<>>
    THEN IF contract.servers[1].has_url THEN contract.servers[1].url
         ELSE DefaultBaseUrl
    ELSE DefaultBaseUrl

\* _validate_against_spec with the method looked up in every template's
\* list, not in the list of the template that matched
validate_against_spec_any_template(ve, api_call) ==
    IF ~IsDict(api_call) THEN FALSE
    ELSE LET m == Get(api_call, "method", PStr(<<>>)) IN
         IF ~IsStr(m) THEN FALSE
         ELSE LET method == Upper(m[2])
                  url == Get(api_call, "url", PStr(<<>>))
                  path == extract_path_from_url(url)
              IN  IF ~IsStr(path) THEN FALSE
                  ELSE /\ \E i \in 1..Len(ve) : path_matches_spec(path[2], ve[i][1])
                       /\ \E i \in 1..Len(ve) : method \in Range(ve[i][2])

\* _validate_against_spec: any exception inside is caught and gives False
validate_against_spec(ve, api_call) ==
    IF ~IsDict(api_call) THEN FALSE
    ELSE LET m == Get(api_call, "method", PStr(<<>>)) IN
         IF ~IsStr(m) THEN FALSE
         ELSE LET method == Upper(m[2])
                  url == Get(api_call, "url", PStr(<<>>))
                  path == extract_path_from_url(url)
              IN  IF ~IsStr(path) THEN FALSE
                  ELSE \E i \in 1..Len(ve) :
                           /\ path_matches_spec(path[2], ve[i][1])
                           /\ method \in Range(ve[i][2])

----------------------------------------------------------------------------
(* APICallEvaluator: the metrics *)

\* _calculate_api_metrics: the four metrics, or the exception of the first
\* statement that raises
calculate_api_metrics(ve, expected, predicted) ==
    IF ~IsDict(expected) THEN Raised("AttributeError")
    ELSE IF ~IsStr(Get(expected, "method", PStr(<<>>))) THEN Raised("AttributeError")
    ELSE IF ~IsDict(predicted) THEN Raised("AttributeError")
    ELSE IF ~IsStr(Get(predicted, "method", PStr(<<>>))) THEN Raised("AttributeError")
    ELSE
    LET expected_method == Upper(Get(expected, "method", PStr(<<>>))[2])
        predicted_method == Upper(Get(predicted, "method", PStr(<<>>))[2])
        expected_path == extract_path_from_url(Get(expected, "url", PStr(<<>>)))
        predicted_path == extract_path_from_url(Get(predicted, "url", PStr(<<>>)))
        path_accuracy == calculate_path_similarity(expected_path, predicted_path)
        query_accuracy ==
            calculate_dict_similarity(Get(expected, "query", EmptyDict),
                                      Get(predicted, "query", EmptyDict))
        body_accuracy ==
            calculate_dict_similarity(Get(expected, "body", EmptyDict),
                                      Get(predicted, "body", EmptyDict))
    IN  Let(<<path_accuracy, query_accuracy, body_accuracy>>, LAMBDA acc :
        IF acc[1].raised THEN acc[1]
        ELSE IF acc[2].raised THEN acc[2]
        ELSE IF acc[3].raised THEN acc[3]
        ELSE Returned(
            [method_accuracy |-> FBool(expected_method = predicted_method),
             path_accuracy |-> acc[1].v,
             parameter_accuracy |-> FDivInt(FAdd(acc[2].v, acc[3].v), 2),
             api_validity |-> FBool(validate_against_spec(ve, predicted))]))

\* the length of the common run of a[i..ahi] and b[j..bhi]
RECURSIVE MatchLen(_, _, _, _, _, _)
MatchLen(a, b, i, j, ahi, bhi) ==
    IF i <= ahi /\ j <= bhi /\ a[i] = b[j]
    THEN 1 + MatchLen(a, b, i + 1, j + 1, ahi, bhi)
    ELSE 0

\* SequenceMatcher.find_longest_match: the longest common block, of those
\* the one earliest in a, of those the one earliest in b: <<i, j, size>>
find_longest_match(a, b, alo, ahi, blo, bhi) ==
    Let({<<i, j, MatchLen(a, b, i, j, ahi, bhi)>> : i \in alo..ahi, j \in blo..bhi},
        LAMBDA blocks :
    IF \A q \in blocks : q[3] = 0 THEN <<alo, blo, 0>>
    ELSE CHOOSE q \in blocks :
             \A r \in blocks :
                 \/ r[3] < q[3]
                 \/ r[3] = q[3] /\ q[1] < r[1]
                 \/ r[3] = q[3] /\ q[1] = r[1] /\ q[2] <= r[2])

\* SequenceMatcher.get_matching_blocks: the total size of the blocks
RECURSIVE MatchingSize(_, _, _, _, _, _)
MatchingSize(a, b, alo, ahi, blo, bhi) ==
    Let(find_longest_match(a, b, alo, ahi, blo, bhi), LAMBDA m :
    IF m[3] = 0 THEN 0
    ELSE m[3] + MatchingSize(a, b, alo, m[1] - 1, blo, m[2] - 1)
              + MatchingSize(a, b, m[1] + m[3], ahi, m[2] + m[3], bhi))

\* _calculate_semantic_similarity: SequenceMatcher(None, a, b).ratio()
calculate_semantic_similarity(expected, predicted) ==
    LET length == Len(expected) + Len(predicted) IN
    IF length = 0 THEN One
    ELSE Frac(2 * MatchingSize(expected, predicted,
                               1, Len(expected), 1, Len(predicted)), length)

\* text.split(): the runs between whitespace
SplitWords(text) ==
    LET ends == {i \in 1..Len(text) :
                     text[i] # Ws /\ (i = Len(text) \/ text[i + 1] = Ws)}
        start(e) == CHOOSE i \in 1..e :
                        /\ \A k \in i..e : text[k] # Ws
                        /\ (i = 1 \/ text[i - 1] = Ws)
    IN  {<<e, SubSeq(text, start(e), e)>> : e \in ends}

\* _calculate_bleu_score
calculate_bleu_score(expected, predicted) ==
    Let(SplitWords(expected), LAMBDA expected_tokens :
    Let(SplitWords(predicted), LAMBDA predicted_tokens :
    LET expected_set == {w[2] : w \in expected_tokens}
        predicted_set == {w[2] : w \in predicted_tokens}
        precision == Frac(Cardinality(expected_set \cap predicted_set),
                          Cardinality(predicted_set))
        bp == FMin(One, Frac(Cardinality(predicted_tokens),
                             Cardinality(expected_tokens)))
    IN  IF expected_tokens = {} \/ predicted_tokens = {} THEN Zero
        ELSE FMul(bp, precision)))

\* metrics.get(metric, 0.0)
MetricGet(metrics, metric) ==
    IF metric \in DOMAIN metrics THEN metrics[metric] ELSE Zero

CorrectnessThreshold == Frac(7, 10)

\* the weighted sum of _determine_correctness (in doubles the full sum of
\* the last four weights is 0.7000000000000001, which also passes >= 0.7)
CorrectnessScore(metrics) ==
    SumSeq(<<FMul(MetricGet(metrics, "exact_match"), Frac(3, 10)),
             FMul(MetricGet(metrics, "api_validity"), Frac(1, 4)),
             FMul(MetricGet(metrics, "method_accuracy"), Frac(3, 20)),
             FMul(MetricGet(metrics, "path_accuracy"), Frac(3, 20)),
             FMul(MetricGet(metrics, "parameter_accuracy"), Frac(3, 20))>>)

\* _determine_correctness with a threshold of 0.55
determine_correctness_lenient(metrics) == FGeq(CorrectnessScore(metrics), Frac(11, 20))

\* _determine_correctness with a score that has to exceed the threshold
determine_correctness_strict(metrics) ==
    ~FLeq(CorrectnessScore(metrics), CorrectnessThreshold)

\* _determine_correctness
determine_correctness(metrics) == FGeq(CorrectnessScore(metrics), CorrectnessThreshold)

\* _calculate_confidence with the sum of the key metrics left undivided
calculate_confidence_sum(metrics) ==
    LET key_metrics == <<"json_validity", "api_validity", "method_accuracy",
                         "path_accuracy">>
        present == SelectSeq(key_metrics, LAMBDA m : m \in DOMAIN metrics)
    IN  SumSeq([i \in 1..Len(present) |-> metrics[present[i]]])

\* _calculate_confidence with api_validity left out of the key metrics
calculate_confidence_without_validity(metrics) ==
    LET key_metrics == <<"json_validity", "method_accuracy", "path_accuracy">>
        present == SelectSeq(key_metrics, LAMBDA m : m \in DOMAIN metrics)
        valid_metrics == [i \in 1..Len(present) |-> metrics[present[i]]]
    IN  IF valid_metrics # <<>>
        THEN FDivInt(SumSeq(valid_metrics), Len(valid_metrics))
        ELSE Zero

\* _calculate_confidence
calculate_confidence(metrics) ==
    LET key_metrics == <<"json_validity", "api_validity",
                         "method_accuracy", "path_accuracy">>
        present == SelectSeq(key_metrics, LAMBDA m : m \in DOMAIN metrics)
        valid_metrics == [i \in 1..Len(present) |-> metrics[present[i]]]
    IN  IF valid_metrics # <<>>
        THEN FDivInt(SumSeq(valid_metrics), Len(valid_metrics))
        ELSE Zero

----------------------------------------------------------------------------
(* APICallEvaluator: scoring one pair, and a dataset *)

MetricNames ==
    {"exact_match", "api_validity", "method_accuracy", "path_accuracy",
     "parameter_accuracy", "json_validity", "semantic_similarity", "bleu_score"}

NoResult == <<>>

\* ParsedFrame with json_validity taken from the expected side
ParsedFrame_expected_validity(expected_api, predicted_api, expected_output, predicted_output) ==
    [expected_valid |-> expected_api.ok,
     predicted_valid |-> predicted_api.ok,
     error_details |->
         [k \in (IF expected_api.ok THEN {} ELSE {"expected_parse_error"})
                \cup (IF predicted_api.ok THEN {} ELSE {"predicted_parse_error"})
          |-> IF k = "expected_parse_error"
              THEN expected_api.exc ELSE predicted_api.exc],
     metrics |->
         [exact_match |-> FBool(Strip(expected_output) = Strip(predicted_output)),
          json_validity |-> FBool(expected_api.ok)]]

\* ParsedFrame with exact_match on the texts as given, not stripped
ParsedFrame_unstripped(expected_api, predicted_api, expected_output, predicted_output) ==
    [expected_valid |-> expected_api.ok,
     predicted_valid |-> predicted_api.ok,
     error_details |->
         [k \in (IF expected_api.ok THEN {} ELSE {"expected_parse_error"})
                \cup (IF predicted_api.ok THEN {} ELSE {"predicted_parse_error"})
          |-> IF k = "expected_parse_error"
              THEN expected_api.exc ELSE predicted_api.exc],
     metrics |->
         [exact_match |-> FBool(expected_output = predicted_output),
          json_validity |-> FBool(predicted_api.ok)]]

\* the locals of evaluate_single_sample once both texts are parsed (lines
\* 78-100): error_details and the first two metrics
ParsedFrame(expected_api, predicted_api, expected_output, predicted_output) ==
    [expected_valid |-> expected_api.ok,
     predicted_valid |-> predicted_api.ok,
     error_details |->
         [k \in (IF expected_api.ok THEN {} ELSE {"expected_parse_error"})
                \cup (IF predicted_api.ok THEN {} ELSE {"predicted_parse_error"})
          |-> IF k = "expected_parse_error"
              THEN expected_api.exc ELSE predicted_api.exc],
     metrics |->
         [exact_match |-> FBool(Strip(expected_output) = Strip(predicted_output)),
          json_validity |-> FBool(predicted_api.ok)]]

\* the EvaluationResult of lines 122-137
MakeResult(sample_id, input_text, expected_output, predicted_output,
           error_details, metrics) ==
    [sample_id |-> sample_id,
     input_text |-> input_text,
     expected_output |-> expected_output,
     predicted_output |-> predicted_output,
     is_correct |-> determine_correctness(metrics),
     confidence_score |-> calculate_confidence(metrics),
     error_details |-> error_details,
     metrics |-> metrics]

\* evaluate_single_sample. The outcome holds the locals expected_valid,
\* predicted_valid, error_details and metrics as they are when the call
\* returns or raises, and the EvaluationResult when it returns.
evaluate_single_sample(ve, input_text, expected_output, predicted_output, sample_id) ==
    Let(parse_api_call(expected_output), LAMBDA expected_api :
    Let(parse_api_call(predicted_output), LAMBDA predicted_api :
    Let(ParsedFrame(expected_api, predicted_api, expected_output, predicted_output),
        LAMBDA frame :
    Let(IF expected_api.ok /\ predicted_api.ok
        THEN calculate_api_metrics(ve, expected_api.v, predicted_api.v)
        ELSE Returned([api_validity |-> Zero, method_accuracy |-> Zero,
                       path_accuracy |-> Zero, parameter_accuracy |-> Zero]),
        LAMBDA api :
    IF api.raised
    THEN [raised |-> TRUE, exc |-> api.exc, result |-> NoResult] @@ frame
    ELSE Let([semantic_similarity |->
                  calculate_semantic_similarity(expected_output, predicted_output),
              bleu_score |->
                  calculate_bleu_score(expected_output, predicted_output)]
             @@ api.v @@ frame.metrics,
             LAMBDA metrics :
         [raised |-> FALSE, exc |-> "", metrics |-> metrics,
          result |-> MakeResult(sample_id, input_text, expected_output,
                                predicted_output, frame.error_details, metrics)]
         @@ frame)))))

\* metrics_sum of _calculate_aggregate_metrics: a defaultdict(float) that
\* adds up every metric of every result
MetricsSum(results, metric) ==
    SumSeq([i \in 1..Len(results) |-> MetricGet(results[i].metrics, metric)])

\* the tail of _calculate_aggregate_metrics: metrics_sum[m] / n for the
\* eight metrics; the division raises when n is 0
MeanMetrics(results) ==
    LET n == Len(results) IN
    IF n = 0 THEN Raised("ZeroDivisionError")
    ELSE Returned([m \in MetricNames |-> FDivInt(MetricsSum(results, m), n)])

\* _calculate_aggregate_metrics without the guard for no results
calculate_aggregate_metrics_unguarded(results) == MeanMetrics(results)

\* _calculate_aggregate_metrics
calculate_aggregate_metrics(results) ==
    IF results = <<>> THEN Returned([m \in MetricNames |-> Zero])
    ELSE MeanMetrics(results)

\* the first index of outs whose call raised, 0 if none
FirstRaised(outs) ==
    IF \A i \in 1..Len(outs) : ~outs[i].raised THEN 0
    ELSE CHOOSE i \in 1..Len(outs) :
             outs[i].raised /\ \A k \in 1..(i - 1) : ~outs[k].raised

\* evaluate_dataset: the results and the aggregate, or the exception
evaluate_dataset(ve, test_samples, predictions) ==
    IF Len(test_samples) # Len(predictions)
    THEN [raised |-> TRUE, exc |-> "ValueError", scored |-> 0,
          results |-> <<>>, aggregate |-> NoResult]
    ELSE Let([i \in 1..Len(test_samples) |->
                 evaluate_single_sample(ve, test_samples[i].input,
                     test_samples[i].output, predictions[i], i - 1)],
             LAMBDA outs :
         Let(FirstRaised(outs), LAMBDA stop :
         IF stop # 0
         THEN [raised |-> TRUE, exc |-> outs[stop].exc, scored |-> stop - 1,
               results |-> <<>>, aggregate |-> NoResult]
         ELSE Let([i \in 1..Len(outs) |-> outs[i].result], LAMBDA results :
              Let(calculate_aggregate_metrics(results), LAMBDA aggregate :
              IF aggregate.raised
              THEN [raised |-> TRUE, exc |-> aggregate.exc, scored |-> Len(outs),
                    results |-> <<>>, aggregate |-> NoResult]
              ELSE [raised |-> FALSE, exc |-> "", scored |-> Len(outs),
                    results |-> results, aggregate |-> aggregate.v]))))

----------------------------------------------------------------------------
(* Contracts *)

Schema(type, format, properties, required, items) ==
    [type |-> type, format |-> format, properties |-> properties,
     required |-> required, items |-> items]
\* {}: every key missing
EmptySchema == Schema("", "", <<>>, {}, <<>>)
TypeSchema(type) == Schema(type, "", <<>>, {}, <<>>)

Param(name, in, schema) == [name |-> name, in |-> in, schema |-> schema]

\* an operation object; requestBody is <<>> when missing, else the one
\* application/json schema
Details(parameters, requestBody, summary, tags) ==
    [parameters |-> parameters, requestBody |-> requestBody,
     summary |-> summary, tags |-> tags]
NoDetails == Details(<<>>, <<>>, <<>>, <<>>)

Server(url) == [has_url |-> TRUE, url |-> url]
ServerNoUrl == [has_url |-> FALSE, url |-> <<>>]

PetSchema ==
    Schema("object", "",
           << <<"name", TypeSchema("string")>>, <<"tag", TypeSchema("string")>> >>,
           {"name"}, <<>>)

\* GET /pets/{petId}, POST /pets (the body requires name), GET /pets
Petstore ==
    [servers |-> <<Server(<<"https://api.example.com">>)>>,
     paths |-> <<
        << <<"/", "pets", "/", "{petId}">>,
           << <<"get", Details(<<Param("petId", "path", TypeSchema("integer"))>>,
                               <<>>, <<"Find", "pet">>, <<>>)>> >> >>,
        << <<"/", "pets">>,
           << <<"post", Details(<<>>, <<PetSchema>>, <<"Add", "pet">>, << <<"Pets">> >>)>>,
              <<"get", Details(<<Param("limit", "query", TypeSchema("integer"))>>,
                               <<>>, <<>>, <<>>)>> >> >> >>]

\* a base url with a path; keys in mixed case, twice in different case, and
\* keys that are no indexed method
PetstoreV1 ==
    [servers |-> <<Server(<<"https://petstore.example.com", "/", "api", "/", "v1">>)>>,
     paths |-> <<
        << <<"/", "pets", "/", "{id}">>,
           << <<"parameters", NoDetails>>,
              <<"GET", Details(<<>>, <<>>, <<>>, <<>>)>>,
              <<"delete", Details(<<Param("id", "path", TypeSchema("string"))>>,
                                  <<>>, <<>>, <<>>)>>,
              <<"head", NoDetails>> >> >>,
        << <<"/", "pets">>,
           << <<"get", NoDetails>>, <<"GET", NoDetails>>,
              <<"Post", Details(<<>>, <<PetSchema>>, <<>>, <<>>)>> >> >>,
        << <<"/", "status">>, << <<"options", NoDetails>> >> >> >>]

\* no server url and nothing to index
NoEndpoints ==
    [servers |-> <<ServerNoUrl>>,
     paths |-> << << <<"/", "status">>, << <<"head", NoDetails>> >> >> >>]

\* only a root template
RootTemplate ==
    [servers |-> <<>>,
     paths |-> << << <<"/", "{id}">>, << <<"get", NoDetails>> >> >> >>]

Contracts == {Petstore, PetstoreV1, NoEndpoints, RootTemplate}

----------------------------------------------------------------------------
(* Texts *)

ApiUrl(path) == <<"https://api.example.com">> \o path
Call(method, url) == <<LBrace, KeyTok("method"), StrTok(<<method>>),
                       KeyTok("url"), StrTok(url), RBrace>>
\* the call with one more member before the closing brace
With(call, key, value) ==
    SubSeq(call, 1, Len(call) - 1) \o <<KeyTok(key)>> \o value \o <<RBrace>>

Pets123 == <<"/", "pets", "/", "123">>
Pets999 == <<"/", "pets", "/", "999">>
PetsPath == <<"/", "pets">>

TGet123 == Call("GET", ApiUrl(Pets123))
TGet999 == Call("GET", ApiUrl(Pets999))
TLowerGet123 == Call("get", ApiUrl(Pets123))
TGetPets == Call("GET", ApiUrl(PetsPath))
TGetOther == Call("GET", ApiUrl(<<"/", "zzz", "/", "123">>))
TGetV1 == Call("GET", <<"https://petstore.example.com", "/", "api", "/", "v1">> \o Pets123)
TGetRoot == Call("GET", ApiUrl(<<>>))
TPost123 == Call("POST", ApiUrl(Pets123))
TPostRex == With(Call("POST", ApiUrl(PetsPath)), "body",
                 <<LBrace, KeyTok("name"), StrTok(<<"Rex">>), RBrace>>)
TPostTom == With(Call("POST", ApiUrl(PetsPath)), "body",
                 <<LBrace, KeyTok("name"), StrTok(<<"Tom">>), RBrace>>)
TPostRexTag == With(Call("POST", ApiUrl(PetsPath)), "body",
                    <<LBrace, KeyTok("name"), StrTok(<<"Rex">>),
                      KeyTok("tag"), StrTok(<<"x">>), RBrace>>)
TGetLimit == With(Call("GET", ApiUrl(PetsPath)), "query",
                  <<LBrace, KeyTok("limit"), NumTok("10"), RBrace>>)
TEmptyObject == <<LBrace, RBrace>>
\* JSON that is no object
TArray == <<LBracket, NumTok("1"), NumTok("2"), RBracket>>
TNumber == <<NumTok("5")>>
TNull == <<LitTok("null")>>
TString == <<StrTok(<<"/", "pets", "/", "{id}">>)>>
\* objects whose fields have another JSON type
TMethodNumber == <<LBrace, KeyTok("method"), NumTok("5"),
                   KeyTok("url"), StrTok(ApiUrl(Pets123)), RBrace>>
TUrlNumber == <<LBrace, KeyTok("method"), StrTok(<<"GET">>),
                KeyTok("url"), NumTok("5"), RBrace>>
TUrlFloat == <<LBrace, KeyTok("method"), StrTok(<<"GET">>),
               KeyTok("url"), NumTok("1.0"), RBrace>>
TQueryString == With(TGet123, "query", <<StrTok(<<"a">>)>>)
TBodyArray == With(TGet123, "body", <<LBracket, NumTok("1"), RBracket>>)
TBodyFalse == With(TGet123, "body", <<LitTok("false")>>)
\* texts with no JSON in them
TProse == <<Word("not"), Ws, Word("json")>>
TBraceProse == <<Word("x"), Ws, LBrace, Word("y"), RBrace>>
TTruncated == <<LBrace, KeyTok("method"), StrTok(<<"GET">>)>>
TQuotedBraces == <<Word("url"), Ws, StrTok(<<"/", "pets", "/", "{id}">>)>>
\* JSON inside whitespace and inside prose
TPadded == <<Ws>> \o TGet123 \o <<Ws>>
TWrapped == <<Word("Sure"), Ws>> \o TGet123 \o <<Ws, Word("ok")>>
TWrappedArray == <<Word("Sure"), Ws>> \o TArray
TTwoObjects == TGet123 \o <<Ws>> \o TGet999
\* json.dumps(..., indent=2) of TGet123
TIndented == <<LBrace, Ws, KeyTok("method"), Ws, StrTok(<<"GET">>), Ws,
               KeyTok("url"), Ws, StrTok(ApiUrl(Pets123)), Ws, RBrace>>

Texts ==
    {TGet123, TGet999, TLowerGet123, TGetPets, TGetOther, TGetV1, TGetRoot,
     TPost123,
     TPostRex, TPostTom, TPostRexTag, TGetLimit, TEmptyObject,
     TArray, TNumber, TNull, TString,
     TMethodNumber, TUrlNumber, TUrlFloat, TQueryString, TBodyArray, TBodyFalse,
     TProse, TBraceProse, TTruncated, TQuotedBraces,
     TPadded, TWrapped, TWrappedArray, TTwoObjects, TIndented}

Instruction == <<"List", "all", "pets">>

\* the datasets: samples {input, output} and predictions, MaxSamples at most
MaxSamples == 2
TestSamples ==
    {[input |-> <<"Get", "pet", "123">>, output |-> TGet123],
     [input |-> <<"Create", "a", "pet">>, output |-> TPostRex],
     [input |-> <<"List", "all", "pets">>, output |-> TArray]}
Predictions == {TGet123, TPostRexTag, TProse, TArray}

RECURSIVE SeqsUpTo(_, _)
SeqsUpTo(S, n) ==
    IF n = 0 THEN {<<>>}
    ELSE LET shorter == SeqsUpTo(S, n - 1) IN
         shorter \cup {Append(q, x) : q \in {r \in shorter : Len(r) = n - 1}, x \in S}

----------------------------------------------------------------------------
(* The evaluator: construction, then one call. No method assigns a field  *)
(* of self after __init__, so a call sees the same evaluator wherever it   *)
(* stands in a sequence of calls.                                          *)

\* APICallEvaluator.__init__
Init ==
    \E contract \in Contracts :
        /\ spec = contract
        /\ base_url = extract_base_url(contract)
        /\ valid_endpoints = extract_valid_endpoints(contract)
        /\ endpoints = <<>>
        /\ op = "init"
        /\ args = <<>>
        /\ ret = <<>>
        /\ NoJobs

EvaluateSingleSample ==
    \E expected_output \in Texts, predicted_output \in Texts :
        /\ op = "init"
        /\ op' = "evaluate_single_sample"
        /\ args' = [input_text |-> Instruction,
                    expected_output |-> expected_output,
                    predicted_output |-> predicted_output,
                    sample_id |-> 0]
        /\ ret' = evaluate_single_sample(valid_endpoints, Instruction,
                                         expected_output, predicted_output, 0)
        /\ UNCHANGED <<spec, base_url, valid_endpoints, endpoints, jobs>>

EvaluateDataset ==
    \E test_samples \in SeqsUpTo(TestSamples, MaxSamples),
       predictions \in SeqsUpTo(Predictions, MaxSamples) :
        /\ op = "init"
        /\ op' = "evaluate_dataset"
        /\ args' = [test_samples |-> test_samples, predictions |-> predictions]
        /\ ret' = evaluate_dataset(valid_endpoints, test_samples, predictions)
        /\ UNCHANGED <<spec, base_url, valid_endpoints, endpoints, jobs>>

Next == EvaluateSingleSample \/ EvaluateDataset

Spec == Init /\ [][Next]_vars

----------------------------------------------------------------------------
(* Scoring one pair: claims *)

Scored == op = "evaluate_single_sample"

\* text with its leading and trailing whitespace cut off, by position
Trimmed(text) ==
    LET inked == {i \in 1..Len(text) : text[i] # Ws} IN
    IF inked = {} THEN <<>>
    ELSE SubSeq(text, CHOOSE i \in inked : \A k \in inked : i <= k,
                      CHOOSE i \in inked : \A k \in inked : k <= i)

ParseFails(text) == ~parse_api_call(text).ok
StructuralMetrics ==
    {"api_validity", "method_accuracy", "path_accuracy", "parameter_accuracy"}

\* C1: evaluate_single_sample returns an EvaluationResult for every pair
\* of texts and never raises, also when the recovered JSON is no object or
\* a field of the object has an unexpected JSON type: a failure shows only
\* as zeroed metrics and entries of error_details.
C1_NeverRaises ==
    Scored => /\ ~ret.raised
              /\ ret.result # NoResult

\* C2: when the expected or the predicted side fails to parse, the four
\* structural metrics are 0.0 and is_correct is false, also for identical
\* raw texts; json_validity is 0.0 exactly when the predicted side failed;
\* error_details has expected_parse_error / predicted_parse_error exactly
\* for the sides that failed.
C2_ParseFailureZeroes ==
    Scored =>
        LET expected_failed == ParseFails(args.expected_output)
            predicted_failed == ParseFails(args.predicted_output)
        IN  /\ (expected_failed \/ predicted_failed) =>
                   /\ ~ret.raised
                   /\ \A m \in StructuralMetrics : ret.result.metrics[m] = Zero
                   /\ ~ret.result.is_correct
            /\ (ret.metrics["json_validity"] = Zero) <=> predicted_failed
            /\ ret.metrics["json_validity"] \in {Zero, One}
            /\ ("expected_parse_error" \in DOMAIN ret.error_details) <=> expected_failed
            /\ ("predicted_parse_error" \in DOMAIN ret.error_details) <=> predicted_failed
            /\ DOMAIN ret.error_details
                   \subseteq {"expected_parse_error", "predicted_parse_error"}
            /\ ~ret.raised => ret.result.error_details = ret.error_details

\* identical unparseable texts: exact_match is 1.0 and the verdict is false
C2_Witness ==
    /\ Scored
    /\ args.expected_output = args.predicted_output
    /\ ParseFails(args.expected_output)
    /\ ~ret.raised
    /\ ret.result.metrics["exact_match"] = One
    /\ ~ret.result.is_correct

\* a structured call: an object whose method and url, where present, are
\* strings and whose query and body, where present, are mappings
IsStructuredCall(v) ==
    /\ IsDict(v)
    /\ IsStr(Get(v, "method", PStr(<<>>)))
    /\ IsStr(Get(v, "url", PStr(<<>>)))
    /\ IsDict(Get(v, "query", EmptyDict))
    /\ IsDict(Get(v, "body", EmptyDict))

SameCallTwice ==
    /\ Scored
    /\ args.expected_output = args.predicted_output
    /\ ~ParseFails(args.expected_output)
    /\ IsStructuredCall(parse_api_call(args.expected_output).v)

SameObjectTwice ==
    /\ Scored
    /\ args.expected_output = args.predicted_output
    /\ ~ParseFails(args.expected_output)
    /\ IsDict(parse_api_call(args.expected_output).v)

\* a field that is neither a mapping nor falsy
TruthyNonMapping(v) == Truthy(v) /\ ~IsDict(v)

IndexedTemplates ==
    UNION {{<<spec.paths[i][1], UpperPiece(spec.paths[i][2][k][1])>> :
               k \in {n \in 1..Len(spec.paths[i][2]) :
                          LowerPiece(spec.paths[i][2][n][1]) \in IndexedMethods}} :
           i \in 1..Len(spec.paths)}

\* the pieces of a path between the slashes, by position
PiecesBetweenSlashes(path) ==
    LET inner == {i \in 1..Len(path) : path[i] # "/"}
        lo == CHOOSE i \in inner : \A k \in inner : i <= k
        hi == CHOOSE i \in inner : \A k \in inner : k <= i
        cuts == IF inner = {} THEN <<>>
                ELSE SelectSeq([i \in 1..(hi - lo + 1) |-> lo + i - 1],
                               LAMBDA i : path[i] = "/")
        n == Len(cuts)
    IN  IF inner = {} THEN << <<>> >>
        ELSE [s \in 1..(n + 1) |->
                 SubSeq(path, IF s = 1 THEN lo ELSE cuts[s - 1] + 1,
                              IF s = n + 1 THEN hi ELSE cuts[s] - 1)]

TemplateFits(template, path) ==
    LET t == PiecesBetweenSlashes(template)
        a == PiecesBetweenSlashes(path)
    IN  /\ Len(t) = Len(a)
        /\ \A i \in 1..Len(t) : (t[i] \in {<<b>> : b \in BracePieces}) \/ t[i] = a[i]

BothParsed ==
    /\ Scored
    /\ ~ParseFails(args.expected_output)
    /\ ~ParseFails(args.predicted_output)
    /\ ~ret.raised

\* C4: when both sides parse, api_validity is 1.0 iff some indexed template
\* T has as many segments as the path of the predicted url, each segment of
\* T being a placeholder or equal to the predicted segment, and the
\* upper-cased predicted method is in the method list of that same T;
\* otherwise it is 0.0.
C4_ApiValidity ==
    BothParsed =>
        LET predicted == parse_api_call(args.predicted_output).v
            method == Get(predicted, "method", PStr(<<>>))
            url == Get(predicted, "url", PStr(<<>>))
            conforms ==
                /\ IsStr(method)
                /\ IsStr(url) \/ ~Truthy(url)
                /\ \E T \in IndexedTemplates :
                       /\ TemplateFits(T[1], IF IsStr(url) THEN UrlPath(url[2]) ELSE <<>>)
                       /\ Upper(method[2]) = <<T[2]>>
        IN  ret.result.metrics["api_validity"] = IF conforms THEN One ELSE Zero

\* GET /pets/999 against the indexed GET /pets/{petId}
C4_Witness ==
    /\ BothParsed
    /\ spec = Petstore
    /\ args.predicted_output = TGet999
    /\ ret.result.metrics["api_validity"] = One

\* C8: exact_match is 1.0 iff the two texts are identical once leading and
\* trailing whitespace is trimmed, else 0.0, whether or not a side parses.
C8_ExactMatch ==
    Scored =>
        ret.metrics["exact_match"] =
            IF Trimmed(args.expected_output) = Trimmed(args.predicted_output)
            THEN One ELSE Zero

\* texts that differ only in outer whitespace
C8_Witness ==
    /\ Scored
    /\ args.expected_output # args.predicted_output
    /\ ~ret.raised
    /\ ret.result.metrics["exact_match"] = One

----------------------------------------------------------------------------
(* Path similarity on its own: paths of at most MaxSegments segments *)

MaxSegments == 2
SegmentPool == {"pets", "42", "{a}", "{b}", "{x"}
PathShapes == {"bare", "rooted", "closed"}

RECURSIVE Join(_, _)
Join(parts, sep) ==
    IF parts = <<>> THEN <<>>
    ELSE IF Len(parts) = 1 THEN <<parts[1]>>
    ELSE <<parts[1], sep>> \o Join(Tail(parts), sep)

PathOf(parts, shape) ==
    (IF shape = "bare" THEN <<>> ELSE <<"/">>)
        \o Join(parts, "/")
        \o (IF shape = "closed" THEN <<"/">> ELSE <<>>)

Paths == {PathOf(parts, shape) :
             parts \in SeqsUpTo(SegmentPool, MaxSegments), shape \in PathShapes}

InitPath ==
    /\ spec = Petstore
    /\ base_url = extract_base_url(Petstore)
    /\ valid_endpoints = extract_valid_endpoints(Petstore)
    /\ endpoints = <<>>
    /\ op = "init"
    /\ args = <<>>
    /\ ret = <<>>
    /\ NoJobs

CalculatePathSimilarity ==
    /\ op = "init"
    /\ \E pair \in Paths \X Paths :
           /\ op' = "calculate_path_similarity"
           /\ args' = [expected |-> pair[1], predicted |-> pair[2]]
           /\ ret' = calculate_path_similarity(PStr(pair[1]), PStr(pair[2]))
           /\ UNCHANGED <<spec, base_url, valid_endpoints, endpoints, jobs>>

NextPath == CalculatePathSimilarity
SpecPath == InitPath /\ [][NextPath]_vars

PathCompared == op = "calculate_path_similarity"

\* a segment of the form {name}
IsNamePlaceholder(part) == \E b \in BracePieces : part = <<b>>

\* the number of positions where the expected segment is a placeholder or
\* equal to the predicted one
MatchedCount(e, p) ==
    Cardinality({i \in 1..Len(e) : IsNamePlaceholder(e[i]) \/ e[i] = p[i]})

\* C5: path similarity is 1.0 whenever the two paths have the same number
\* of segments and every expected segment is a {name} placeholder or equal
\* to the predicted segment; a placeholder matches any predicted segment,
\* a placeholder of another name included.
C5_PlaceholderMatches ==
    PathCompared =>
        LET e == PiecesBetweenSlashes(args.expected)
            p == PiecesBetweenSlashes(args.predicted)
        IN  (Len(e) = Len(p) /\ MatchedCount(e, p) = Len(e))
                => ret = Returned(One)

\* /pets/{a} against /pets/{b}
C5_Witness ==
    /\ PathCompared
    /\ args.expected = <<"/", "pets", "/", "{a}">>
    /\ args.predicted = <<"/", "pets", "/", "{b}">>
    /\ ret = Returned(One)

\* C6: when the segment counts differ, after stripping the outer slashes
\* and splitting on '/', path similarity is exactly 0.0; for equal counts
\* it is the matched segments divided by the total.
C6_SegmentCounts ==
    PathCompared =>
        LET e == PiecesBetweenSlashes(args.expected)
            p == PiecesBetweenSlashes(args.predicted)
        IN  /\ ~ret.raised
            /\ Len(e) # Len(p) => ret.v = Zero
            /\ Len(e) = Len(p) => ret.v = Frac(MatchedCount(e, p), Len(e))

\* /pets against /pets/42: one segment against two
C6_Witness ==
    /\ PathCompared
    /\ args.expected = <<"/", "pets">>
    /\ args.predicted = <<"/", "pets", "/", "42">>
    /\ ret = Returned(Zero)

----------------------------------------------------------------------------
(* Dict similarity on its own: mappings of at most MaxKeys keys *)

MaxKeys == 2
KeyPool == {"limit", "name", "tag"}
ValuePool == {PInt(1), PBool(TRUE), PStr(<<"rex">>)}

\* the mappings with distinct keys, in every order of insertion
Mappings ==
    {PObj(members) : members \in
        {m \in SeqsUpTo(KeyPool \X ValuePool, MaxKeys) :
            \A i, k \in 1..Len(m) : i # k => m[i][1] # m[k][1]}}

CalculateDictSimilarity ==
    /\ op = "init"
    /\ \E pair \in Mappings \X Mappings :
           /\ op' = "calculate_dict_similarity"
           /\ args' = [expected |-> pair[1], predicted |-> pair[2]]
           /\ ret' = calculate_dict_similarity(pair[1], pair[2])
           /\ UNCHANGED <<spec, base_url, valid_endpoints, endpoints, jobs>>

NextDict == CalculateDictSimilarity
SpecDict == InitPath /\ [][NextDict]_vars

DictCompared == op = "calculate_dict_similarity"

\* C7: dict similarity of a non-empty mapping with itself is 1.0, of two
\* empty mappings 1.0, and of an empty with a non-empty mapping, in either
\* order, 0.0.
C7_DictReflexive ==
    DictCompared =>
        LET e == args.expected
            p == args.predicted
        IN  /\ (e = p /\ e # EmptyDict) => ret = Returned(One)
            /\ (e = EmptyDict /\ p = EmptyDict) => ret = Returned(One)
            /\ (e = EmptyDict /\ p # EmptyDict) => ret = Returned(Zero)
            /\ (e # EmptyDict /\ p = EmptyDict) => ret = Returned(Zero)

\* a mapping of two keys against itself
C7_Witness ==
    /\ DictCompared
    /\ args.expected = args.predicted
    /\ Len(args.expected[2]) = 2
    /\ ret = Returned(One)

----------------------------------------------------------------------------
(* Scoring a dataset: claims *)

ScoredDataset == op = "evaluate_dataset"

\* C10: the aggregate is, for each of the eight metrics, the sum over the
\* results divided by their number; for no results every metric is 0.0 and
\* nothing is raised.
C10_Aggregate ==
    ScoredDataset =>
        /\ (args.test_samples = <<>> /\ args.predictions = <<>>) => ~ret.raised
        /\ ~ret.raised =>
               /\ DOMAIN ret.aggregate = MetricNames
               /\ \A m \in MetricNames :
                      LET n == Len(ret.results)
                          total == SumSeq([i \in 1..n |-> ret.results[i].metrics[m]])
                      IN  IF n = 0 THEN ret.aggregate[m] = Zero
                          ELSE FMul(ret.aggregate[m], Frac(n, 1)) = total

\* two results whose exact_match differ: the mean is 0.5
C10_Witness ==
    /\ ScoredDataset
    /\ ~ret.raised
    /\ Len(ret.results) = 2
    /\ ret.aggregate["exact_match"] = Frac(1, 2)

\* C11: evaluate_dataset with lists of different length fails at once, with
\* no sample scored and no results; with lists of the same length n it
\* returns n results in the order of the input, result i with sample_id i
\* and the input, expected output and prediction of pair i, and the
\* aggregate over those n results.
C11_ResultPerPair ==
    ScoredDataset =>
        LET n == Len(args.test_samples) IN
        /\ n # Len(args.predictions) =>
               /\ ret.raised
               /\ ret.exc = "ValueError"
               /\ ret.scored = 0
               /\ ret.results = <<>>
        /\ n = Len(args.predictions) =>
               /\ ~ret.raised
               /\ Len(ret.results) = n
               /\ \A i \in 1..n :
                      /\ ret.results[i].sample_id = i - 1
                      /\ ret.results[i].input_text = args.test_samples[i].input
                      /\ ret.results[i].expected_output = args.test_samples[i].output
                      /\ ret.results[i].predicted_output = args.predictions[i]
               /\ DOMAIN ret.aggregate = MetricNames
               /\ \A m \in MetricNames :
                      n > 0 => FMul(ret.aggregate[m], Frac(n, 1))
                                   = SumSeq([i \in 1..n |-> ret.results[i].metrics[m]])

\* the results a call has returned: the one of evaluate_single_sample, the
\* list of evaluate_dataset
ReturnedResults ==
    IF Scored /\ ~ret.raised THEN {ret.result}
    ELSE IF ScoredDataset /\ ~ret.raised THEN Range(ret.results)
    ELSE {}

\* 0.3*exact_match + 0.25*api_validity + 0.15*(method_accuracy +
\* path_accuracy + parameter_accuracy)
WeightedSum(metrics) ==
    FAdd(FMul(Frac(3, 10), metrics["exact_match"]),
    FAdd(FMul(Frac(1, 4), metrics["api_validity"]),
         FMul(Frac(3, 20), FAdd(metrics["method_accuracy"],
                           FAdd(metrics["path_accuracy"],
                                metrics["parameter_accuracy"])))))

\* C16: for every result, is_correct is true iff 0.3*exact_match +
\* 0.25*api_validity + 0.15*method_accuracy + 0.15*path_accuracy +
\* 0.15*parameter_accuracy >= 0.7 on the result's own metrics;
\* semantic_similarity, bleu_score and json_validity have no part in it.
C16_Verdict ==
    \A r \in ReturnedResults :
        r.is_correct <=> FGeq(WeightedSum(r.metrics), Frac(7, 10))

\* a score of exactly 0.7: everything but exact_match is 1.0
C16_Witness ==
    /\ Scored
    /\ ~ret.raised
    /\ ret.result.metrics["exact_match"] = Zero
    /\ WeightedSum(ret.result.metrics) = Frac(7, 10)
    /\ ret.result.is_correct

\* C17: every EvaluationResult of evaluate_single_sample has exactly the
\* eight metrics exact_match, json_validity, api_validity, method_accuracy,
\* path_accuracy, parameter_accuracy, semantic_similarity and bleu_score,
\* each in [0,1], and a confidence_score in [0,1] that is the mean of
\* json_validity, api_validity, method_accuracy and path_accuracy.
C17_MetricsAndConfidence ==
    (Scored /\ ~ret.raised) =>
        LET r == ret.result IN
        /\ DOMAIN r.metrics =
               {"exact_match", "json_validity", "api_validity", "method_accuracy",
                "path_accuracy", "parameter_accuracy", "semantic_similarity",
                "bleu_score"}
        /\ \A m \in DOMAIN r.metrics :
               FGeq(r.metrics[m], Zero) /\ FLeq(r.metrics[m], One)
        /\ FGeq(r.confidence_score, Zero) /\ FLeq(r.confidence_score, One)
        /\ FMul(r.confidence_score, Frac(4, 1)) =
               FAdd(r.metrics["json_validity"],
               FAdd(r.metrics["api_validity"],
               FAdd(r.metrics["method_accuracy"], r.metrics["path_accuracy"])))

\* a result with a metric and a confidence strictly between 0 and 1
C17_Witness ==
    /\ Scored
    /\ ~ret.raised
    /\ ret.result.metrics["path_accuracy"] = Frac(1, 2)
    /\ ret.result.confidence_score \notin {Zero, One}

\* the four metrics that carry the verdict when the texts differ
CallMetrics == {"api_validity", "method_accuracy", "path_accuracy", "parameter_accuracy"}

\* C27: for every result whose exact_match is 0.0, is_correct is true if and
\* only if api_validity, method_accuracy, path_accuracy and
\* parameter_accuracy are all exactly 1.0; a shortfall in any one of them
\* makes the verdict false.
C27_VerdictWithoutExactMatch ==
    \A r \in ReturnedResults :
        r.metrics["exact_match"] = Zero =>
            (r.is_correct <=> \A m \in CallMetrics : r.metrics[m] = One)

\* the same call written with other white space is correct; so is no call
\* that falls short in one metric
C27_Witness ==
    /\ Scored
    /\ ~ret.raised
    /\ args.expected_output = TGet123
    /\ args.predicted_output = TIndented
    /\ ret.result.metrics["exact_match"] = Zero
    /\ \A m \in CallMetrics : ret.result.metrics[m] = One
    /\ ret.result.is_correct

----------------------------------------------------------------------------
(* The call parser on its own: one call of _parse_api_call on a text.     *)

ParseText ==
    \E api_call_str \in Texts :
        /\ op = "init"
        /\ op' = "parse_text"
        /\ args' = [api_call_str |-> api_call_str]
        /\ ret' = parse_api_call(api_call_str)
        /\ UNCHANGED <<spec, base_url, valid_endpoints, endpoints, jobs>>

NextParse == ParseText
SpecParse == Init /\ [][NextParse]_vars

ParsedText == op = "parse_text"

\* the text from its first '{' to its last '}' is valid JSON
SpanIsJson(text) ==
    LET m == BraceSpan(text)
    IN  /\ m.found
        /\ text[m.lo] = LBrace
        /\ text[m.hi] = RBrace
        /\ json_loads(SubSeq(text, m.lo, m.hi)).ok

\* C15: parse(text) returns a JSON object or fails, and never returns a
\* JSON value that is no object; it succeeds exactly when the trimmed text
\* is valid JSON or else the span from the first '{' to the last '}' is.
C15_ParseObject ==
    ParsedText =>
        /\ ret.ok => IsDict(ret.v)
        /\ ret.ok <=> (json_loads(Strip(args.api_call_str)).ok
                          \/ SpanIsJson(args.api_call_str))

----------------------------------------------------------------------------
(* SyntheticDataGenerator. A random choice is every value it can give:    *)
(* an operator that draws returns the set of its possible results.        *)

\* the keys of self.sample_values
SampleValueKeys ==
    {"id", "name", "email", "status", "type", "category", "limit", "offset",
     "page", "sort", "order"}

StrValues(S) == {PStr(<<p>>) : p \in S}
IntValues(S) == {PInt(n) : n \in S}

\* self.sample_values[key]
SampleValues(key) ==
    CASE key = "id" -> StrValues({"123", "456", "abc-123", "user-456"})
      [] key = "name" -> StrValues({"John Doe", "Jane Smith", "Product A", "Service B"})
      [] key = "email" -> StrValues({"john@example.com", "jane@example.com"})
      [] key = "status" -> StrValues({"active", "inactive", "pending"})
      [] key = "type" -> StrValues({"premium", "basic", "enterprise"})
      [] key = "category" -> StrValues({"electronics", "books", "clothing"})
      [] key = "limit" -> IntValues({10, 20, 50, 100})
      [] key = "offset" -> IntValues({0, 10, 20})
      [] key = "page" -> IntValues({1, 2, 3})
      [] key = "sort" -> StrValues({"name", "date", "price"})
      [] key = "order" -> StrValues({"asc", "desc"})

\* random.randint(1, 1000): the two ends
RandomInts == IntValues({1, 1000})
\* round(random.uniform(1.0, 100.0), 2): the two ends and a value between
RandomNumbers == {PFloat(100), PFloat(4250), PFloat(10000)}

\* schema.get('items', {})
ItemsOf(schema) == IF schema.items = <<>> THEN EmptySchema ELSE schema.items[1]

\* _parse_endpoints: the inner loop over the keys of one path item
RECURSIVE EndpointsOf(_, _)
EndpointsOf(path, item) ==
    IF item = <<>> THEN <<>>
    ELSE LET method == Head(item)[1]
             details == Head(item)[2]
         IN  (IF LowerPiece(method) \in {"get", "post", "put", "delete", "patch"}
              THEN <<[path |-> path,
                      method |-> <<UpperPiece(method)>>,
                      details |-> details,
                      parameters |-> details.parameters,
                      requestBody |-> details.requestBody,
                      summary |-> details.summary,
                      tags |-> details.tags]>>
              ELSE <<>>) \o EndpointsOf(path, Tail(item))

RECURSIVE EndpointsOfPaths(_)
EndpointsOfPaths(paths) ==
    IF paths = <<>> THEN <<>>
    ELSE EndpointsOf(Head(paths)[1], Head(paths)[2]) \o EndpointsOfPaths(Tail(paths))

\* _parse_endpoints
parse_endpoints(contract) == EndpointsOfPaths(contract.paths)

\* _get_sample_value: the values it can return
RECURSIVE get_sample_value(_, _)
get_sample_value(param_name, schema) ==
    LET param_type == IF schema.type = "" THEN "string" ELSE schema.type
        param_format == schema.format
    IN  IF LowerPiece(param_name) \in SampleValueKeys
        THEN SampleValues(LowerPiece(param_name))
        ELSE CASE param_type = "integer" -> RandomInts
               [] param_type = "number" -> RandomNumbers
               [] param_type = "boolean" -> {PBool(TRUE), PBool(FALSE)}
               [] param_type = "array" ->
                      {PArr(<<v>>) : v \in get_sample_value("item", ItemsOf(schema))}
               [] OTHER ->
                      CASE param_format = "email" -> SampleValues("email")
                        [] param_format = "date" -> {PStr(<<"2024-01-15">>)}
                        [] param_format = "date-time" -> {PStr(<<"2024-01-15T10:30:00Z">>)}
                        [] OTHER -> {PStr(<<"sample_", param_name>>)}

\* a loop over the properties that puts none of them in
ObjectsFrom_none(properties, required, obj) == {obj}

\* _generate_object_from_schema: the values it can return
RECURSIVE generate_object_from_schema(_)
RECURSIVE ObjectsFrom(_, _, _)
generate_object_from_schema(schema) ==
    LET schema_type == IF schema.type = "" THEN "object" ELSE schema.type IN
    CASE schema_type = "object" -> ObjectsFrom(schema.properties, schema.required, EmptyDict)
      [] schema_type = "array" ->
             {PArr(<<v>>) : v \in generate_object_from_schema(ItemsOf(schema))}
      [] OTHER -> get_sample_value("field", schema)

\* the loop over the properties: a required one is put in, another one is
\* put in or left out
ObjectsFrom(properties, required, obj) ==
    IF properties = <<>> THEN {obj}
    ELSE LET prop_name == Head(properties)[1]
             prop_schema == Head(properties)[2]
         IN  UNION {ObjectsFrom(Tail(properties), required, Put(obj, prop_name, v)) :
                        v \in generate_object_from_schema(prop_schema)}
             \cup (IF prop_name \in required THEN {}
                   ELSE ObjectsFrom(Tail(properties), required, obj))

\* _generate_request_body, request_body being the application/json schema
generate_request_body(request_body) == generate_object_from_schema(request_body[1])

\* the decimal literal of an int, and the repr of a float
IntLit(n) ==
    CASE n = 0 -> "0" [] n = 1 -> "1" [] n = 2 -> "2" [] n = 3 -> "3"
      [] n = 5 -> "5" [] n = 10 -> "10" [] n = 20 -> "20" [] n = 50 -> "50"
      [] n = 100 -> "100" [] n = 1000 -> "1000"
FloatLit(h) ==
    CASE h = 100 -> "1.0" [] h = 4250 -> "42.5" [] h = 10000 -> "100.0"

\* repr(v) and str(v)
RECURSIVE PyRepr(_)
PyRepr(v) ==
    CASE v[1] = "str" -> <<"'">> \o v[2] \o <<"'">>
      [] v[1] = "int" -> <<IntLit(v[2])>>
      [] v[1] = "float" -> <<FloatLit(v[2])>>
      [] v[1] = "bool" -> IF v[2] THEN <<"True">> ELSE <<"False">>
      [] v[1] = "null" -> <<"None">>
      [] v[1] = "arr" ->
             <<"[">> \o (IF v[2] = <<>> THEN <<>> ELSE PyRepr(v[2][1])) \o <<"]">>
PyStr(v) == IF v[1] = "str" THEN v[2] ELSE PyRepr(v)

\* f'{{{param_name}}}'
BraceOf(param_name) ==
    CASE param_name = "id" -> "{id}" [] param_name = "petId" -> "{petId}"
      [] param_name = "a" -> "{a}" [] param_name = "b" -> "{b}"
      [] OTHER -> "{}"

\* s.replace(old, new), old being one piece
RECURSIVE Replace(_, _, _)
Replace(s, old, new) ==
    IF s = <<>> THEN <<>>
    ELSE (IF Head(s) = old THEN new ELSE <<Head(s)>>) \o Replace(Tail(s), old, new)

\* the first loop of _generate_api_call: the filled paths it can build
RECURSIVE FilledPaths(_, _)
FilledPaths(filled_path, parameters) ==
    IF parameters = <<>> THEN {filled_path}
    ELSE LET param == Head(parameters) IN
         IF param.in = "path"
         THEN UNION {FilledPaths(Replace(filled_path, BraceOf(param.name), PyStr(v)),
                                 Tail(parameters)) :
                         v \in get_sample_value(param.name, param.schema)}
         ELSE FilledPaths(filled_path, Tail(parameters))

\* the second loop: a query parameter is put in or left out
RECURSIVE QueryParams(_, _)
QueryParams(parameters, query_params) ==
    IF parameters = <<>> THEN {query_params}
    ELSE LET param == Head(parameters) IN
         IF param.in = "query"
         THEN QueryParams(Tail(parameters), query_params)
              \cup UNION {QueryParams(Tail(parameters), Put(query_params, param.name, v)) :
                              v \in get_sample_value(param.name, param.schema)}
         ELSE QueryParams(Tail(parameters), query_params)

APICall(method, url, path, query_params, body, headers) ==
    [method |-> method, url |-> url, path |-> path,
     query_params |-> query_params, body |-> body, headers |-> headers]

ContentTypeHeaders == PObj(<< <<"Content-Type", PStr(<<"application/json">>)>> >>)

\* _generate_api_call: the calls it can return
generate_api_call(base, endpoint) ==
    LET bodies ==
            IF endpoint.requestBody # <<>>
               /\ Upper(endpoint.method) \in {<<"POST">>, <<"PUT">>, <<"PATCH">>}
            THEN generate_request_body(endpoint.requestBody)
            ELSE {EmptyDict}
    IN  {APICall(endpoint.method, base \o filled_path, filled_path,
                 query_params, body, ContentTypeHeaders) :
            filled_path \in FilledPaths(endpoint.path, endpoint.parameters),
            query_params \in QueryParams(endpoint.parameters, EmptyDict),
            body \in bodies}

\* the characters of a str as json.dumps writes them
EscapePiece(p) ==
    CASE p = "nick\"name\"" -> "nick\\\"name\\\""
      [] OTHER -> p
Escape(s) == [i \in 1..Len(s) |-> EscapePiece(s[i])]

\* json.dumps(v, indent=2): every member and item on a line of its own
RECURSIVE json_dumps(_)
RECURSIVE DumpMembers(_)
RECURSIVE DumpItems(_)
json_dumps(v) ==
    CASE v[1] = "str" -> <<StrTok(Escape(v[2]))>>
      [] v[1] = "int" -> <<NumTok(IntLit(v[2]))>>
      [] v[1] = "float" -> <<NumTok(FloatLit(v[2]))>>
      [] v[1] = "bool" -> <<LitTok(IF v[2] THEN "true" ELSE "false")>>
      [] v[1] = "null" -> <<LitTok("null")>>
      [] v[1] = "obj" ->
             IF v[2] = <<>> THEN <<LBrace, RBrace>>
             ELSE <<LBrace>> \o DumpMembers(v[2]) \o <<Ws, RBrace>>
      [] v[1] = "arr" ->
             IF v[2] = <<>> THEN <<LBracket, RBracket>>
             ELSE <<LBracket>> \o DumpItems(v[2]) \o <<Ws, RBracket>>
DumpMembers(members) ==
    IF members = <<>> THEN <<>>
    ELSE <<Ws, KeyTok(EscapePiece(Head(members)[1])), Ws>>
             \o json_dumps(Head(members)[2]) \o DumpMembers(Tail(members))
DumpItems(items) ==
    IF items = <<>> THEN <<>>
    ELSE <<Ws>> \o json_dumps(Head(items)) \o DumpItems(Tail(items))

\* _format_api_call with the path written out as well
format_api_call_with_path(api_call) ==
    json_dumps(PObj(
        << <<"method", PStr(api_call.method)>>, <<"url", PStr(api_call.url)>>,
           <<"path", PStr(api_call.path)>> >>
        \o (IF Truthy(api_call.query_params)
            THEN << <<"query", api_call.query_params>> >> ELSE <<>>)
        \o (IF Truthy(api_call.body)
            THEN << <<"body", api_call.body>> >> ELSE <<>>)
        \o (IF Truthy(api_call.headers) /\ Len(api_call.headers[2]) > 1
            THEN << <<"headers", api_call.headers>> >> ELSE <<>>)))

\* _format_api_call
format_api_call(api_call) ==
    json_dumps(PObj(
        << <<"method", PStr(api_call.method)>>, <<"url", PStr(api_call.url)>> >>
        \o (IF Truthy(api_call.query_params)
            THEN << <<"query", api_call.query_params>> >> ELSE <<>>)
        \o (IF Truthy(api_call.body)
            THEN << <<"body", api_call.body>> >> ELSE <<>>)
        \o (IF Truthy(api_call.headers) /\ Len(api_call.headers[2]) > 1
            THEN << <<"headers", api_call.headers>> >> ELSE <<>>)))

\* part.rstrip('s') and str.title() on the pieces the model uses
RStripS(p) ==
    CASE p = "pets" -> "pet" [] p = "items" -> "item" [] p = "status" -> "statu"
      [] p = "address" -> "addre" [] p = "s" -> ""
      [] OTHER -> p
TitlePiece(p) ==
    CASE p = "get" -> "Get" [] p = "post" -> "Post" [] p = "put" -> "Put"
      [] p = "delete" -> "Delete" [] p = "patch" -> "Patch"
      [] OTHER -> p

\* _extract_resource_name
extract_resource_name(path, tags) ==
    IF tags # <<>> THEN Lower(tags[1])
    ELSE LET parts == SelectSeq(SplitOn(path, "/"),
                                LAMBDA p : p # <<>> /\ Head(p) \notin OpenPieces)
         IN  IF parts # <<>>
             THEN LET last == parts[Len(parts)] IN
                  SubSeq(last, 1, Len(last) - 1) \o <<RStripS(last[Len(last)])>>
             ELSE <<"resource">>

\* _generate_param_description: the descriptions it can return
generate_param_description(endpoint) ==
    LET path_params == SelectSeq(endpoint.parameters, LAMBDA p : p.in = "path") IN
    IF path_params # <<>>
    THEN {<<path_params[1].name, " ">> \o PyStr(v) :
              v \in get_sample_value(path_params[1].name, path_params[1].schema)}
    ELSE {<<"ID 123">>}

\* _generate_field_description
generate_field_description(endpoint) ==
    IF endpoint.requestBody = <<>> THEN <<"the required fields">>
    ELSE LET properties == endpoint.requestBody[1].properties
             fields == [i \in 1..(IF Len(properties) < 3 THEN Len(properties) ELSE 3)
                           |-> properties[i][1]]
         IN  IF properties # <<>> THEN Join(fields, ", ")
             ELSE <<"the required fields">>

\* _generate_natural_language_request: the requests it can return
generate_natural_language_request(endpoint) ==
    LET method == Lower(endpoint.method)
        resource == extract_resource_name(endpoint.path, endpoint.tags)
    IN  CASE method = <<"get">> ->
                 IF Range(endpoint.path) \cap OpenPieces # {}
                 THEN {<<"Get ">> \o resource \o <<" details for ">> \o d :
                           d \in generate_param_description(endpoint)}
                 ELSE {<<"List all ">> \o resource}
          [] method = <<"post">> ->
                 {<<"Create a new ">> \o resource \o <<" with ">>
                      \o generate_field_description(endpoint)}
          [] method \in {<<"put">>, <<"patch">>} ->
                 {<<"Update ">> \o resource \o <<" with ">>
                      \o generate_field_description(endpoint)}
          [] method = <<"delete">> ->
                 {<<"Delete ">> \o resource \o <<" ">> \o d :
                      d \in generate_param_description(endpoint)}
          [] OTHER ->
                 IF endpoint.summary # <<>> THEN {endpoint.summary}
                 ELSE {<<TitlePiece(method[1]), " ">> \o resource}

\* a turn of the loop that builds the call from an endpoint drawn afresh
GeneratedSamples_any_endpoint(base, endpoint) ==
    {[input |-> nl_request,
      output |-> format_api_call(api_call),
      endpoint_info |-> [path |-> endpoint.path, method |-> endpoint.method,
                         summary |-> endpoint.summary]] :
        nl_request \in generate_natural_language_request(endpoint),
        api_call \in UNION {generate_api_call(base, endpoints[i]) :
                                i \in 1..Len(endpoints)}}

\* one turn of the loop of generate_synthetic_data for the endpoint drawn:
\* the samples it can append
GeneratedSamples(base, endpoint) ==
    {[input |-> nl_request,
      output |-> format_api_call(api_call),
      endpoint_info |-> [path |-> endpoint.path, method |-> endpoint.method,
                         summary |-> endpoint.summary]] :
        nl_request \in generate_natural_language_request(endpoint),
        api_call \in generate_api_call(base, endpoint)}

\* generate_synthetic_data: the lists it can return; random.choice raises
\* IndexError on an empty list of endpoints
RECURSIVE SampleLists(_, _, _)
SampleLists(base, eps, num_samples) ==
    IF num_samples = 0 THEN {<<>>}
    ELSE LET one == UNION {GeneratedSamples(base, eps[i]) : i \in 1..Len(eps)} IN
         {Append(samples, sample) :
              samples \in SampleLists(base, eps, num_samples - 1), sample \in one}

generate_synthetic_data(base, eps, num_samples) ==
    IF num_samples > 0 /\ eps = <<>> THEN {Raised("IndexError")}
    ELSE {Returned(samples) : samples \in SampleLists(base, eps, num_samples)}

----------------------------------------------------------------------------
(* Contracts for the generator *)

\* bodies of every kind: an object with a number, an array and a name that
\* needs escaping; an array; a boolean. Path and query parameters with
\* sample values of their own
Inventory ==
    [servers |-> <<Server(<<"https://api.example.com">>)>>,
     paths |-> <<
        << <<"/", "items", "/", "{id}">>,
           << <<"put",
                Details(<<Param("id", "path", TypeSchema("string"))>>,
                        <<Schema("object", "",
                                 << <<"price", TypeSchema("number")>>,
                                    <<"flags", Schema("array", "", <<>>, {},
                                                      <<TypeSchema("boolean")>>)>>,
                                    <<"nick\"name\"", EmptySchema>> >>,
                                 {"price"}, <<>>)>>,
                        <<>>, <<>>)>>,
              <<"delete",
                Details(<<Param("id", "path", TypeSchema("string"))>>,
                        <<>>, <<>>, <<>>)>> >> >>,
        << <<"/", "items">>,
           << <<"get",
                Details(<<Param("offset", "query", TypeSchema("integer")),
                          Param("since", "query", Schema("string", "date", <<>>, {}, <<>>))>>,
                        <<>>, <<"List", "items">>, <<>>)>>,
              <<"post",
                Details(<<>>,
                        <<Schema("array", "", <<>>, {}, <<TypeSchema("integer")>>)>>,
                        <<>>, <<>>)>>,
              <<"patch",
                Details(<<>>, <<TypeSchema("boolean")>>, <<>>, <<>>)>> >> >> >>]

\* untagged paths whose last literal segment ends in 'ss', or is 's' alone
AddressBook ==
    [servers |-> <<>>,
     paths |-> <<
        << <<"/", "users", "/", "{id}", "/", "address">>,
           << <<"get", Details(<<Param("id", "path", TypeSchema("string"))>>,
                               <<>>, <<>>, <<>>)>> >> >>,
        << <<"/", "s", "/", "{id}">>,
           << <<"delete", Details(<<Param("id", "path", TypeSchema("string"))>>,
                                  <<>>, <<>>, <<>>)>> >> >> >>]

GeneratorContracts == Contracts \cup {Inventory, AddressBook}

MaxGenerated == 1

\* the schemas handed to _generate_object_from_schema: leaves, arrays, and
\* objects that declare name, or name and tag, nested MaxDepth deep, with
\* required sets that name declared and undeclared properties
MaxDepth == 2
LeafSchemas == {TypeSchema("string"), TypeSchema("boolean"), EmptySchema}
RequiredSets == {{}, {"name"}, {"tag", "ghost"}, {"name", "tag"}}

RECURSIVE SchemasOfDepth(_)
SchemasOfDepth(d) ==
    IF d = 0 THEN LeafSchemas
    ELSE LET inner == SchemasOfDepth(d - 1) IN
         LeafSchemas
         \cup {Schema("array", "", <<>>, {}, <<s>>) : s \in inner}
         \cup {Schema("object", "", properties, required, <<>>) :
                  properties \in {<<>>}
                      \cup {<< <<"name", s>> >> : s \in inner}
                      \cup {<< <<"name", s>>, <<"tag", TypeSchema("string")>> >> :
                               s \in inner},
                  required \in RequiredSets}

----------------------------------------------------------------------------
(* The generator: construction, then generate_synthetic_data, or one call *)
(* built, written out by _format_api_call and read back by the            *)
(* evaluator's _parse_api_call.                                           *)

\* SyntheticDataGenerator.__init__
InitGen ==
    \E contract \in GeneratorContracts :
        /\ spec = contract
        /\ base_url = extract_base_url(contract)
        /\ endpoints = parse_endpoints(contract)
        /\ valid_endpoints = <<>>
        /\ op = "init"
        /\ args = <<>>
        /\ ret = <<>>
        /\ NoJobs

GenerateSyntheticData ==
    \E num_samples \in 0..MaxGenerated :
        /\ op = "init"
        /\ op' = "generate_synthetic_data"
        /\ args' = [num_samples |-> num_samples]
        /\ ret' \in generate_synthetic_data(base_url, endpoints, num_samples)
        /\ UNCHANGED <<spec, base_url, valid_endpoints, endpoints, jobs>>

GenerateObjectFromSchema ==
    \E schema \in SchemasOfDepth(MaxDepth) :
        /\ op = "init"
        /\ op' = "generate_object_from_schema"
        /\ args' = [schema |-> schema]
        /\ ret' \in generate_object_from_schema(schema)
        /\ UNCHANGED <<spec, base_url, valid_endpoints, endpoints, jobs>>

GenerateApiCall ==
    \E i \in 1..Len(endpoints) :
        /\ op = "init"
        /\ op' = "generate_api_call"
        /\ args' = [endpoint |-> endpoints[i]]
        /\ ret' \in generate_api_call(base_url, endpoints[i])
        /\ UNCHANGED <<spec, base_url, valid_endpoints, endpoints, jobs>>

FormatApiCall ==
    /\ op = "generate_api_call"
    /\ op' = "format_api_call"
    /\ args' = [api_call |-> ret]
    /\ ret' = format_api_call(ret)
    /\ UNCHANGED <<spec, base_url, valid_endpoints, endpoints, jobs>>

ParseApiCall ==
    /\ op = "format_api_call"
    /\ op' = "parse_api_call"
    /\ args' = [api_call |-> args.api_call, api_call_str |-> ret]
    /\ ret' = parse_api_call(ret)
    /\ UNCHANGED <<spec, base_url, valid_endpoints, endpoints, jobs>>

\* APICallEvaluator(spec).evaluate_single_sample on a sample of the
\* generator, its output being both the expected and the predicted text
EvaluateGeneratedSample ==
    /\ op = "generate_synthetic_data"
    /\ ~ret.raised
    /\ \E n \in 1..Len(ret.v) :
           /\ op' = "evaluate_generated_sample"
           /\ args' = [sample |-> ret.v[n]]
           /\ valid_endpoints' = extract_valid_endpoints(spec)
           /\ ret' = evaluate_single_sample(extract_valid_endpoints(spec),
                          ret.v[n].input, ret.v[n].output, ret.v[n].output, 0)
           /\ UNCHANGED <<spec, base_url, endpoints, jobs>>

ExtractResourceName ==
    \E i \in 1..Len(endpoints) :
        /\ op = "init"
        /\ op' = "extract_resource_name"
        /\ args' = [path |-> endpoints[i].path, tags |-> endpoints[i].tags]
        /\ ret' = extract_resource_name(endpoints[i].path, endpoints[i].tags)
        /\ UNCHANGED <<spec, base_url, valid_endpoints, endpoints, jobs>>

NextGen ==
    \/ GenerateSyntheticData
    \/ ExtractResourceName
    \/ EvaluateGeneratedSample
    \/ GenerateObjectFromSchema
    \/ GenerateApiCall
    \/ FormatApiCall
    \/ ParseApiCall
SpecGen == InitGen /\ [][NextGen]_vars

ReadBack == op = "parse_api_call"

\* C9 as stated: a call of the generator written out by _format_api_call
\* and parsed by the call parser comes back equal to the original: the
\* same method, url, path, query, body and headers.
C9_Original ==
    ReadBack =>
        /\ ret.ok
        /\ IsDict(ret.v)
        /\ Get(ret.v, "method", PNull) = PStr(args.api_call.method)
        /\ Get(ret.v, "url", PNull) = PStr(args.api_call.url)
        /\ Get(ret.v, "path", PNull) = PStr(args.api_call.path)
        /\ Get(ret.v, "query", PNull) = args.api_call.query_params
        /\ Get(ret.v, "body", PNull) = args.api_call.body
        /\ Get(ret.v, "headers", PNull) = args.api_call.headers

\* C9 amended: the text parses to an object with the method and the url of
\* the call; it has a query key exactly when the query parameters are not
\* empty and a body key exactly when the body is truthy, each with the
\* value of the call; path and headers are not written and do not come
\* back.
C9_Amended ==
    ReadBack =>
        /\ ret.ok
        /\ IsDict(ret.v)
        /\ Keys(ret.v) \subseteq {"method", "url", "query", "body"}
        /\ Get(ret.v, "method", PNull) = PStr(args.api_call.method)
        /\ Get(ret.v, "url", PNull) = PStr(args.api_call.url)
        /\ HasKey(ret.v, "query") <=> Truthy(args.api_call.query_params)
        /\ HasKey(ret.v, "query") => Item(ret.v, "query") = args.api_call.query_params
        /\ HasKey(ret.v, "body") <=> Truthy(args.api_call.body)
        /\ HasKey(ret.v, "body") => Item(ret.v, "body") = args.api_call.body

\* a body with a number and an escaped name comes back; the path does not
C9_Witness ==
    /\ ReadBack
    /\ ret.ok
    /\ IsDict(args.api_call.body)
    /\ {"price", "nick\"name\""} \subseteq Keys(args.api_call.body)
    /\ Get(ret.v, "body", PNull) = args.api_call.body
    /\ ~HasKey(ret.v, "path")

----------------------------------------------------------------------------
(* Claims about generated samples *)

Generated == op = "generate_synthetic_data"

\* the structured call a sample's output text holds
CallOf(sample) == parse_api_call(sample.output).v

\* C13: with at least one indexed endpoint, generate_synthetic_data(n)
\* returns exactly n samples; the endpoint_info of each is the path and
\* method of an indexed endpoint, the method written in the output is that
\* method, and the instruction and the url of the call are both among those
\* the generator derives from that one endpoint.
C13_SamplesFromIndex ==
    (Generated /\ endpoints # <<>>) =>
        /\ ~ret.raised
        /\ Len(ret.v) = args.num_samples
        /\ \A n \in 1..Len(ret.v) :
               LET sample == ret.v[n] IN
               \E i \in 1..Len(endpoints) :
                   /\ sample.endpoint_info.path = endpoints[i].path
                   /\ sample.endpoint_info.method = endpoints[i].method
                   /\ parse_api_call(sample.output).ok
                   /\ Get(CallOf(sample), "method", PNull) = PStr(endpoints[i].method)
                   /\ sample.input \in generate_natural_language_request(endpoints[i])
                   /\ Get(CallOf(sample), "url", PNull) \in
                          {PStr(base_url \o filled_path) :
                              filled_path \in FilledPaths(endpoints[i].path,
                                                          endpoints[i].parameters)}

\* one sample from the Petstore, for POST /pets
C13_Witness ==
    /\ Generated
    /\ spec = Petstore
    /\ args.num_samples = MaxGenerated
    /\ ~ret.raised
    /\ Len(ret.v) = MaxGenerated
    /\ ret.v[1].endpoint_info.method = <<"POST">>
    /\ Get(CallOf(ret.v[1]), "url", PNull) = PStr(<<"https://api.example.com", "/", "pets">>)

\* a value generated from a schema has the shape of the schema: an object
\* has declared keys only and every declared key that is required, each
\* value of the shape of its own schema; an array holds one such value
RECURSIVE Conforms(_, _)
Conforms(v, schema) ==
    LET schema_type == IF schema.type = "" THEN "object" ELSE schema.type
        declared == {schema.properties[i][1] : i \in 1..Len(schema.properties)}
    IN  CASE schema_type = "object" ->
                 /\ IsDict(v)
                 /\ Keys(v) \subseteq declared
                 /\ declared \cap schema.required \subseteq Keys(v)
                 /\ \A i \in 1..Len(schema.properties) :
                        HasKey(v, schema.properties[i][1]) =>
                            Conforms(Item(v, schema.properties[i][1]),
                                     schema.properties[i][2])
          [] schema_type = "array" ->
                 /\ v[1] = "arr"
                 /\ Len(v[2]) = 1
                 /\ Conforms(v[2][1], ItemsOf(schema))
          [] OTHER -> ~IsDict(v)

\* C14: in every object generated from an object schema, at every depth
\* and for every outcome of the draws, each declared property that is
\* required is present and every key is a declared property; so the body of
\* a generated POST call whose body schema declares and requires name has
\* the key name.
C14_RequiredPresent ==
    /\ op = "generate_object_from_schema" => Conforms(ret, args.schema)
    /\ (op = "generate_api_call"
           /\ args.endpoint.method = <<"POST">>
           /\ args.endpoint.requestBody # <<>>) =>
          /\ Conforms(ret.body, args.endpoint.requestBody[1])
          /\ LET schema == args.endpoint.requestBody[1] IN
                 ("name" \in schema.required
                    /\ \E i \in 1..Len(schema.properties) :
                           schema.properties[i][1] = "name")
                   => HasKey(ret.body, "name")

\* an object that requires name and not tag, whose name is an object that
\* requires name in turn: the outer tag is left out, both names are there
C14_Witness ==
    /\ op = "generate_object_from_schema"
    /\ args.schema.type = "object"
    /\ args.schema.required = {"name"}
    /\ Len(args.schema.properties) = 2
    /\ args.schema.properties[1][2].type = "object"
    /\ args.schema.properties[1][2].required = {"name"}
    /\ Len(args.schema.properties[1][2].properties) = 2
    /\ Keys(ret) = {"name"}
    /\ Keys(Item(ret, "name")) = {"name"}

\* C18: on a contract with an empty endpoint index, generate_synthetic_data
\* completes without raising for every n >= 0.
C18_EmptyIndexCompletes ==
    (Generated /\ endpoints = <<>>) => ~ret.raised

\* C20: in every generated sample the url of the call is the base url
\* followed by the path with every placeholder replaced: no placeholder is
\* left in it.
C20_PlaceholdersResolved ==
    (Generated /\ ~ret.raised) =>
        \A n \in 1..Len(ret.v) :
            LET url == Get(CallOf(ret.v[n]), "url", PNull) IN
            /\ IsStr(url)
            /\ SubSeq(url[2], 1, Len(base_url)) = base_url
            /\ Range(url[2]) \cap BracePieces = {}

----------------------------------------------------------------------------
(* The evaluator called several times: args and ret are the lists of the  *)
(* calls made so far and of what each returned.                           *)

MaxCalls == 2
SeqExpected == {TGet123, TArray}
SeqPredicted == {TGet999, TProse}
SeqSamples == SeqsUpTo({[input |-> Instruction, output |-> TGet123]}, 2)

\* a scoring step that throws the contract index away
EvaluateSingleSampleAgain_dropping_index ==
    \E pair \in SeqExpected \X SeqPredicted :
        /\ Len(ret) < MaxCalls
        /\ op' = "evaluate_single_sample"
        /\ args' = Append(args, [input_text |-> Instruction,
                                 expected_output |-> pair[1],
                                 predicted_output |-> pair[2],
                                 sample_id |-> Len(ret)])
        /\ ret' = Append(ret, evaluate_single_sample(valid_endpoints, Instruction,
                                                     pair[1], pair[2], Len(ret)))
        /\ valid_endpoints' = <<>>
        /\ UNCHANGED <<spec, base_url, endpoints, jobs>>

EvaluateSingleSampleAgain ==
    \E pair \in SeqExpected \X SeqPredicted :
        /\ Len(ret) < MaxCalls
        /\ op' = "evaluate_single_sample"
        /\ args' = Append(args, [input_text |-> Instruction,
                                 expected_output |-> pair[1],
                                 predicted_output |-> pair[2],
                                 sample_id |-> Len(ret)])
        /\ ret' = Append(ret, evaluate_single_sample(valid_endpoints, Instruction,
                                                     pair[1], pair[2], Len(ret)))
        /\ UNCHANGED <<spec, base_url, valid_endpoints, endpoints, jobs>>

EvaluateDatasetAgain ==
    \E test_samples \in SeqSamples :
        \E predictions \in {q \in SeqsUpTo(SeqPredicted, 2) : Len(q) = Len(test_samples)} :
            /\ Len(ret) < MaxCalls
            /\ op' = "evaluate_dataset"
            /\ args' = Append(args, [test_samples |-> test_samples,
                                     predictions |-> predictions])
            /\ ret' = Append(ret, evaluate_dataset(valid_endpoints, test_samples,
                                                   predictions))
            /\ UNCHANGED <<spec, base_url, valid_endpoints, endpoints, jobs>>

NextCalls == EvaluateSingleSampleAgain \/ EvaluateDatasetAgain
SpecCalls == Init /\ [][NextCalls]_vars

\* a result without its sample_id
WithoutSampleId(result) == [f \in DOMAIN result \ {"sample_id"} |-> result[f]]

\* the results returned by call k: the triple scored, the position it was
\* given, and the result
ResultsOfCall(k) ==
    IF ret[k].raised THEN {}
    ELSE IF "results" \in DOMAIN ret[k]
    THEN {[triple |-> <<args[k].test_samples[i].input, args[k].test_samples[i].output,
                        args[k].predictions[i]>>,
           sample_id |-> i - 1,
           result |-> ret[k].results[i]] : i \in 1..Len(ret[k].results)}
    ELSE {[triple |-> <<args[k].input_text, args[k].expected_output,
                        args[k].predicted_output>>,
           sample_id |-> args[k].sample_id,
           result |-> ret[k].result]}
ResultsSoFar == UNION {ResultsOfCall(k) : k \in 1..Len(ret)}

\* every result so far is the result of a new evaluator for the same
\* contract on that triple, and any two for one triple differ in sample_id
\* at most
OrderIndependent ==
    /\ \A r \in ResultsSoFar :
           /\ r.result.sample_id = r.sample_id
           /\ r.result = evaluate_single_sample(extract_valid_endpoints(spec),
                              r.triple[1], r.triple[2], r.triple[3], r.sample_id).result
    /\ \A r1, r2 \in ResultsSoFar :
           r1.triple = r2.triple =>
               WithoutSampleId(r1.result) = WithoutSampleId(r2.result)

\* C24: scoring is side-effect-free and order-independent: every sequence
\* of evaluate_single_sample and evaluate_dataset calls leaves spec,
\* base_url and valid_endpoints as they were, and the result for a triple
\* is the same, sample_id apart, whichever calls came before it and
\* whichever place of a batch it has.
C24_SideEffectFree ==
    /\ []OrderIndependent
    /\ [][UNCHANGED <<spec, base_url, valid_endpoints>>]_vars

\* the same triple scored on its own first and then second in a batch
C24_Witness ==
    /\ Len(ret) = 2
    /\ "result" \in DOMAIN ret[1]
    /\ ~ret[1].raised
    /\ args[1].expected_output = TGet123
    /\ args[1].predicted_output = TGet999
    /\ "results" \in DOMAIN ret[2]
    /\ ~ret[2].raised
    /\ Len(ret[2].results) = 2
    /\ args[2].predictions = <<TProse, TGet999>>
    /\ WithoutSampleId(ret[2].results[2]) = WithoutSampleId(ret[1].result)
    /\ ret[2].results[2].sample_id # ret[1].result.sample_id

----------------------------------------------------------------------------
(* Claims about the values synthesized from a schema *)

\* the values in the state generated from a schema, each with its schema:
\* the result of _generate_object_from_schema, and the body of a call
\* built for an endpoint with a request body and a method that sends it
GeneratedFromSchema ==
    (IF op = "generate_object_from_schema" THEN {<<ret, args.schema>>} ELSE {})
    \cup (IF op = "generate_api_call"
              /\ args.endpoint.requestBody # <<>>
              /\ args.endpoint.method \in {<<"POST">>, <<"PUT">>, <<"PATCH">>}
           THEN {<<ret.body, args.endpoint.requestBody[1]>>}
           ELSE {})

KnownTypes == {"object", "array", "string", "integer", "number", "boolean"}

\* the policy for a schema with no known type, at every depth: the object
\* rule if it has properties, the string placeholder otherwise
RECURSIVE FollowsTypePolicy(_, _)
FollowsTypePolicy(v, schema) ==
    IF schema.type \notin KnownTypes
    THEN IF schema.properties # <<>> THEN IsDict(v) ELSE IsStr(v)
    ELSE CASE schema.type = "object" ->
                  /\ IsDict(v)
                  /\ \A i \in 1..Len(schema.properties) :
                         HasKey(v, schema.properties[i][1]) =>
                             FollowsTypePolicy(Item(v, schema.properties[i][1]),
                                               schema.properties[i][2])
           [] schema.type = "array" ->
                  /\ v[1] = "arr"
                  /\ \A i \in 1..Len(v[2]) : FollowsTypePolicy(v[2][i], ItemsOf(schema))
           [] OTHER -> TRUE

\* C21: a schema fragment with an unknown or missing type gives an object
\* only if it has properties; with no properties it gives the string
\* placeholder, never an empty object; for a request-body schema and for a
\* property nested in one.
C21_TypelessFragment ==
    \A g \in GeneratedFromSchema : FollowsTypePolicy(g[1], g[2])

\* a plain string schema: type string (or none) and no format
IsPlainString(schema) ==
    /\ schema.type \in {"string"}
    /\ schema.format = ""

\* C22: in a body generated from an object schema each included plain
\* string property is synthesized under its own name: a value of the
\* candidate list of that name if the name, in lower case, is a curated
\* one, else the placeholder token made from the name.
C22_OwnFieldName ==
    \A g \in GeneratedFromSchema :
        (g[2].type = "object" /\ IsDict(g[1])) =>
            \A i \in 1..Len(g[2].properties) :
                LET prop_name == g[2].properties[i][1]
                    prop_schema == g[2].properties[i][2]
                IN  (HasKey(g[1], prop_name) /\ IsPlainString(prop_schema)) =>
                        IF LowerPiece(prop_name) \in SampleValueKeys
                        THEN Item(g[1], prop_name) \in SampleValues(LowerPiece(prop_name))
                        ELSE Item(g[1], prop_name) = PStr(<<"sample_", prop_name>>)

----------------------------------------------------------------------------
(* Claims about the instruction *)

\* the segments of a path template that are no placeholder
LiteralSegments(path) ==
    SelectSeq(path, LAMBDA p : p # "/" /\ p \notin BracePieces)

\* a word with one trailing 's' removed, if it has one
WithoutOneS(p) ==
    CASE p = "pets" -> "pet" [] p = "items" -> "item" [] p = "users" -> "user"
      [] p = "status" -> "statu" [] p = "address" -> "addres" [] p = "s" -> ""
      [] OTHER -> p

\* C23: the resource word is the first tag (in lower case) when the
\* endpoint has tags; otherwise the last path segment that is no
\* placeholder, with exactly one trailing 's' removed if it ends in 's' (a
\* segment ending in 'ss' loses one 's' only); 'resource' when there is
\* neither.
C23_ResourceWord ==
    op = "extract_resource_name" =>
        LET literal == LiteralSegments(args.path) IN
        ret = IF args.tags # <<>> THEN Lower(args.tags[1])
              ELSE IF literal # <<>> THEN <<WithoutOneS(literal[Len(literal)])>>
              ELSE <<"resource">>

----------------------------------------------------------------------------
(* Claims about a generated sample as a whole *)

\* C25: generator and evaluator agree: for every contract, also one whose
\* server url has a path, and every sample the generator produces, scoring
\* the sample's output against itself with an evaluator built from the
\* same contract gives api_validity 1.0.
C25_GeneratedIsValid ==
    op = "evaluate_generated_sample" =>
        /\ ~ret.raised
        /\ ret.result.metrics["api_validity"] = One

\* the path parameters an endpoint declares
PathParams(endpoint) == SelectSeq(endpoint.parameters, LAMBDA q : q.in = "path")

\* the instruction names the parameter and a value: it ends in the name,
\* a space and the value
NamesParam(input, name) ==
    /\ Len(input) >= 3
    /\ input[Len(input) - 2] = name
    /\ input[Len(input) - 1] = " "

\* C26: in every generated sample whose instruction names a path parameter
\* and a value (GET on a path with a parameter, DELETE), the value named in
\* the instruction is the value put in the place of that parameter's
\* placeholder in the url of the sample's call.
C26_SameValueInBoth ==
    (Generated /\ ~ret.raised) =>
        \A n \in 1..Len(ret.v) :
            \A i \in 1..Len(endpoints) :
                LET sample == ret.v[n]
                    endpoint == endpoints[i]
                    params == PathParams(endpoint)
                    url == Get(CallOf(sample), "url", PNull)
                    places == IF params = <<>> THEN {}
                              ELSE {k \in 1..Len(endpoint.path) :
                                      endpoint.path[k] = BraceOf(params[1].name)}
                IN  (/\ sample.endpoint_info.path = endpoint.path
                     /\ sample.endpoint_info.method = endpoint.method
                     /\ endpoint.method \in {<<"GET">>, <<"DELETE">>}
                     /\ params # <<>>
                     /\ NamesParam(sample.input, params[1].name))
                    => \A k \in places :
                           url[2][Len(base_url) + k] = sample.input[Len(sample.input)]

----------------------------------------------------------------------------
(* The contract index of both classes, built from one contract whose      *)
(* first path item has any keys in any order.                             *)

MaxMethodKeys == 2
MethodKeys ==
    {"get", "GET", "Post", "put", "delete", "patch",
     "parameters", "head", "HEAD", "options"}

\* the path items: distinct keys (a dict has each key once), in any order
PathItems ==
    {[i \in 1..Len(keys) |-> <<keys[i], NoDetails>>] :
        keys \in {q \in SeqsUpTo(MethodKeys, MaxMethodKeys) :
                     \A i, j \in 1..Len(q) : q[i] = q[j] => i = j}}

IndexContracts ==
    {[servers |-> <<>>,
      paths |-> << << <<"/", "pets">>, item >> >> \o more] :
        item \in PathItems,
        more \in {<<>>,
                  << << <<"/", "pets", "/", "{id}">>,
                        << <<"get", NoDetails>>, <<"PUT", NoDetails>> >> >> >>}}

\* APICallEvaluator.__init__ and SyntheticDataGenerator.__init__ on the
\* same contract
InitIndex ==
    \E contract \in IndexContracts :
        /\ spec = contract
        /\ base_url = extract_base_url(contract)
        /\ valid_endpoints = extract_valid_endpoints(contract)
        /\ endpoints = parse_endpoints(contract)
        /\ op = "init"
        /\ args = <<>>
        /\ ret = <<>>
        /\ NoJobs

ExtractValidEndpoints ==
    /\ op = "init"
    /\ op' = "extract_valid_endpoints"
    /\ args' = <<>>
    /\ ret' = extract_valid_endpoints(spec)
    /\ UNCHANGED <<spec, base_url, valid_endpoints, endpoints, jobs>>

ParseEndpoints ==
    /\ op = "init"
    /\ op' = "parse_endpoints"
    /\ args' = <<>>
    /\ ret' = parse_endpoints(spec)
    /\ UNCHANGED <<spec, base_url, valid_endpoints, endpoints, jobs>>

NextIndex == ExtractValidEndpoints \/ ParseEndpoints
SpecIndex == InitIndex /\ [][NextIndex]_vars

FiveMethods == {"GET", "POST", "PUT", "DELETE", "PATCH"}
\* the spellings of the five methods among the keys
MethodSpellings == {"get", "GET", "Post", "put", "PUT", "delete", "patch"}

\* the pairs <<path, method>> of a path->methods map, and of an endpoint list
PairsOfMap(ve) ==
    UNION {{<<ve[i][1], ve[i][2][k]>> : k \in 1..Len(ve[i][2])} : i \in 1..Len(ve)}
PairsOfList(eps) == {<<eps[i].path, eps[i].method>> : i \in 1..Len(eps)}

\* the pairs a contract declares with a key that spells one of the five
DeclaredPairs ==
    UNION {{<<spec.paths[i][1], <<UpperPiece(spec.paths[i][2][k][1])>> >> :
               k \in {n \in 1..Len(spec.paths[i][2]) :
                         spec.paths[i][2][n][1] \in MethodSpellings}} :
           i \in 1..Len(spec.paths)}

\* the maps and lists in the state: the fields, and what a call returned
IndexMaps ==
    {valid_endpoints} \cup (IF op = "extract_valid_endpoints" THEN {ret} ELSE {})
IndexLists ==
    {endpoints} \cup (IF op = "parse_endpoints" THEN {ret} ELSE {})

\* C12: every (path, method) entry of the contract index, in the
\* evaluator's path->methods map and in the generator's endpoint list, has
\* one of the five methods in upper case, and comes from a key of that path
\* item that spells one of the five; other keys produce no entry.
C12_IndexedMethods ==
    /\ \A ve \in IndexMaps :
           /\ \A pm \in PairsOfMap(ve) : pm[2] \in {<<m>> : m \in FiveMethods}
           /\ PairsOfMap(ve) = DeclaredPairs
           /\ \A i \in 1..Len(ve) : ve[i][2] # <<>>
    /\ \A eps \in IndexLists :
           /\ \A pm \in PairsOfList(eps) : pm[2] \in {<<m>> : m \in FiveMethods}
           /\ PairsOfList(eps) = DeclaredPairs

\* a path item with the keys head and Post indexes POST alone
C12_Witness ==
    /\ op = "parse_endpoints"
    /\ Len(spec.paths) = 1
    /\ spec.paths[1][2] = << <<"head", NoDetails>>, <<"Post", NoDetails>> >>
    /\ PairsOfList(ret) = {<< <<"/", "pets">>, <<"POST">> >>}
    /\ valid_endpoints = << << <<"/", "pets">>, << <<"POST">> >> >> >>

\* C19: the contract index never holds the same (path, method) pair twice:
\* the endpoint list has no two entries with the same path and method, and
\* no method list of the path->methods map has a method twice.
C19_NoDuplicates ==
    /\ \A ve \in IndexMaps :
           \A i \in 1..Len(ve) :
               \A k, n \in 1..Len(ve[i][2]) : ve[i][2][k] = ve[i][2][n] => k = n
    /\ \A eps \in IndexLists :
           \A i, j \in 1..Len(eps) :
               (eps[i].path = eps[j].path /\ eps[i].method = eps[j].method) => i = j

----------------------------------------------------------------------------
(* The job records (backend/training/models.py, backend/evaluation/        *)
(* models.py), the request handlers that start and stop jobs and the       *)
(* background tasks that run them. One SyntheticDataset, one TrainingRun   *)
(* on it and one EvaluationRun. A handler or a task holds a copy of the    *)
(* row it read; save() writes every field of the copy back. A step is the  *)
(* code around one access to the database or to the task queue.            *)

MaxRequests == 2

Row(status, file_path) == [status |-> status, file_path |-> file_path]
NoRow == Row("", "")
\* data_dir / f"dataset_{dataset.id}.json"
OutputPath == "dataset_1.json"

Handlers == {"generate_dataset", "generate", "start_training", "stop", "start_evaluation"}

NewRequest(name) == [name |-> name, pc |-> "get_object", local |-> NoRow, response |-> 0]
\* task.delay(id): the task waits in the queue for a worker
NewTask(name) == [name |-> name, pc |-> "queued", local |-> NoRow]
Delay(name) == tasks' = Append(tasks, NewTask(name))

\* the handler goes on, or returns a Response with a status code
Goto(i, pc, local) ==
    requests' = [requests EXCEPT ![i] = [@ EXCEPT !.pc = pc, !.local = local]]
Respond(i, local, response) ==
    requests' = [requests EXCEPT ![i] =
                    [@ EXCEPT !.pc = "done", !.local = local, !.response = response]]
TaskGoto(i, pc, local) ==
    tasks' = [tasks EXCEPT ![i] = [@ EXCEPT !.pc = pc, !.local = local]]

\* Model.save(): every field of the copy is written
Save(record, row) == db' = [db EXCEPT ![record] = row]

EvaluatorIdle == UNCHANGED <<spec, base_url, valid_endpoints, endpoints, op, args, ret>>

\* the database before any request: no dataset yet, a dataset that was
\* created and not generated, or a dataset that is ready; the runs are
\* pending, and there is no TrainingRun without its dataset
InitJobs ==
    /\ spec = <<>> /\ base_url = <<>> /\ valid_endpoints = <<>> /\ endpoints = <<>>
    /\ op = "init" /\ args = <<>> /\ ret = <<>>
    /\ \E dataset \in {Row("absent", ""), Row("pending", ""),
                       Row("completed", OutputPath)} :
           db = [dataset |-> dataset,
                 training_run |-> IF dataset.status = "absent" THEN Row("absent", "")
                                  ELSE Row("pending", ""),
                 evaluation_run |-> Row("pending", "")]
    /\ requests = <<>>
    /\ tasks = <<>>

\* a request arrives; generate_dataset is the request that creates the
\* dataset
Request ==
    \E name \in Handlers :
        /\ Len(requests) < MaxRequests
        /\ name = "generate_dataset" =>
               /\ db.dataset.status = "absent"
               /\ \A i \in DOMAIN requests : requests[i].name # "generate_dataset"
        /\ requests' = Append(requests, NewRequest(name))
        /\ UNCHANGED <<db, tasks>>
        /\ EvaluatorIdle

\* OpenAPISpecViewSet.generate_dataset
GenerateDataset ==
    \E i \in DOMAIN requests :
        /\ requests[i].name = "generate_dataset"
        /\ \/ /\ requests[i].pc = "get_object"
              /\ Save("dataset", Row("pending", ""))
              /\ Goto(i, "delay", Row("pending", ""))
              /\ UNCHANGED tasks
           \/ /\ requests[i].pc = "delay"
              /\ Delay("generate_synthetic_dataset")
              /\ Respond(i, requests[i].local, 200)
              /\ UNCHANGED db
        /\ EvaluatorIdle

\* SyntheticDatasetViewSet.generate
Generate ==
    \E i \in DOMAIN requests :
        /\ requests[i].name = "generate"
        /\ \/ /\ requests[i].pc = "get_object"
              /\ IF db.dataset.status = "absent" THEN Respond(i, NoRow, 404)
                 ELSE IF db.dataset.status # "pending" THEN Respond(i, db.dataset, 400)
                 ELSE Goto(i, "delay", db.dataset)
              /\ UNCHANGED <<db, tasks>>
           \/ /\ requests[i].pc = "delay"
              /\ Delay("generate_synthetic_dataset")
              /\ Goto(i, "save", requests[i].local)
              /\ UNCHANGED db
           \/ /\ requests[i].pc = "save"
              /\ Save("dataset", [requests[i].local EXCEPT !.status = "generating"])
              /\ Respond(i, [requests[i].local EXCEPT !.status = "generating"], 200)
              /\ UNCHANGED tasks
        /\ EvaluatorIdle

\* TrainingRunViewSet.start
StartTraining ==
    \E i \in DOMAIN requests :
        /\ requests[i].name = "start_training"
        /\ \/ /\ requests[i].pc = "get_object"
              /\ IF db.training_run.status = "absent" THEN Respond(i, NoRow, 404)
                 ELSE IF db.training_run.status # "pending"
                 THEN Respond(i, db.training_run, 400)
                 ELSE Goto(i, "dataset", db.training_run)
              /\ UNCHANGED <<db, tasks>>
           \/ /\ requests[i].pc = "dataset"
              /\ IF db.dataset.status # "completed"
                 THEN Respond(i, requests[i].local, 400)
                 ELSE Goto(i, "delay", requests[i].local)
              /\ UNCHANGED <<db, tasks>>
           \/ /\ requests[i].pc = "delay"
              /\ Delay("train_model")
              /\ Respond(i, requests[i].local, 200)
              /\ UNCHANGED db
        /\ EvaluatorIdle

\* TrainingRunViewSet.stop
Stop ==
    \E i \in DOMAIN requests :
        /\ requests[i].name = "stop"
        /\ \/ /\ requests[i].pc = "get_object"
              /\ IF db.training_run.status = "absent" THEN Respond(i, NoRow, 404)
                 ELSE IF db.training_run.status # "running"
                 THEN Respond(i, db.training_run, 400)
                 ELSE Goto(i, "save", db.training_run)
              /\ UNCHANGED <<db, tasks>>
           \/ /\ requests[i].pc = "save"
              /\ Save("training_run", [requests[i].local EXCEPT !.status = "cancelled"])
              /\ Respond(i, [requests[i].local EXCEPT !.status = "cancelled"], 200)
              /\ UNCHANGED tasks
        /\ EvaluatorIdle

\* EvaluationRunViewSet.start
StartEvaluation ==
    \E i \in DOMAIN requests :
        /\ requests[i].name = "start_evaluation"
        /\ \/ /\ requests[i].pc = "get_object"
              /\ IF db.evaluation_run.status # "pending"
                 THEN Respond(i, db.evaluation_run, 400)
                 ELSE Goto(i, "delay", db.evaluation_run)
              /\ UNCHANGED <<db, tasks>>
           \/ /\ requests[i].pc = "delay"
              /\ Delay("evaluate_model")
              /\ Respond(i, requests[i].local, 200)
              /\ UNCHANGED db
        /\ EvaluatorIdle

\* the body of a task on its record: objects.get, save with the started
\* status, the work, save with 'completed' and the file written, if any
\* (and the steps after it, if any); an exception at the work or after it goes to the handler, which
\* reads the row again and saves it with 'failed'
RunTask(i, record, started, output, after) ==
    LET local == tasks[i].local
        finished == [local EXCEPT !.status = "completed", !.file_path = output]
    IN
    \/ /\ tasks[i].pc = "queued"
       /\ TaskGoto(i, "save_started", db[record])
       /\ UNCHANGED db
    \/ /\ tasks[i].pc = "save_started"
       /\ Save(record, [local EXCEPT !.status = started])
       /\ TaskGoto(i, "work", [local EXCEPT !.status = started])
    \/ /\ tasks[i].pc = "work"
       /\ \/ /\ Save(record, finished)
             /\ TaskGoto(i, after, finished)
          \/ /\ TaskGoto(i, "except_get", local)
             /\ UNCHANGED db
    \/ /\ tasks[i].pc = "create_model"
       /\ \E pc \in {"done", "except_get"} : TaskGoto(i, pc, local)
       /\ UNCHANGED db
    \/ /\ tasks[i].pc = "except_get"
       /\ TaskGoto(i, "except_save", db[record])
       /\ UNCHANGED db
    \/ /\ tasks[i].pc = "except_save"
       /\ Save(record, [local EXCEPT !.status = "failed"])
       /\ TaskGoto(i, "done", [local EXCEPT !.status = "failed"])

\* generate_synthetic_dataset (tasks.py and tasks_simple.py)
GenerateSyntheticDatasetTask ==
    \E i \in DOMAIN tasks :
        /\ tasks[i].name = "generate_synthetic_dataset"
        /\ RunTask(i, "dataset", "generating", OutputPath, "done")
        /\ UNCHANGED requests
        /\ EvaluatorIdle

\* train_model (tasks.py and tasks_simple.py)
TrainModel ==
    \E i \in DOMAIN tasks :
        /\ tasks[i].name = "train_model"
        /\ RunTask(i, "training_run", "running", "", "create_model")
        /\ UNCHANGED requests
        /\ EvaluatorIdle

\* evaluate_model (tasks_simple.py)
EvaluateModel ==
    \E i \in DOMAIN tasks :
        /\ tasks[i].name = "evaluate_model"
        /\ RunTask(i, "evaluation_run", "running", "", "done")
        /\ UNCHANGED requests
        /\ EvaluatorIdle

NextJobs ==
    \/ Request
    \/ GenerateDataset
    \/ Generate
    \/ StartTraining
    \/ Stop
    \/ StartEvaluation
    \/ GenerateSyntheticDatasetTask
    \/ TrainModel
    \/ EvaluateModel
SpecJobs == InitJobs /\ [][NextJobs]_vars

\* C28: under every interleaving of the stop handler and the train_model
\* task, once the status of the TrainingRun is 'cancelled' it stays
\* 'cancelled': no step of the task overwrites it.
C28_CancelledStays ==
    [][db.training_run.status = "cancelled" => db'.training_run.status = "cancelled"]_vars

\* the order of the statuses of a dataset
StatusRank(status) ==
    CASE status = "absent" -> 0 [] status = "pending" -> 1
      [] status = "generating" -> 2 [] OTHER -> 3

\* C29: under every interleaving of the generate handler and the
\* generate_synthetic_dataset task the status of a dataset only moves
\* forward, pending -> generating -> completed or failed: once 'completed'
\* (with its file_path) or 'failed' is stored, no step sets the status back
\* to 'generating' or clears file_path.
C29_StatusForward ==
    [][/\ StatusRank(db'.dataset.status) >= StatusRank(db.dataset.status)
       /\ db.dataset.file_path # "" => db'.dataset.file_path = db.dataset.file_path]_vars

TaskNames == {"generate_synthetic_dataset", "train_model", "evaluate_model"}

\* C30: for each job record at most one background task is ever
\* dispatched, under every sequence and interleaving of requests and
\* worker steps.
C30_OneTaskPerRecord ==
    \A name \in TaskNames :
        Cardinality({i \in DOMAIN tasks : tasks[i].name = name}) <= 1

====
